---- MODULE Spec2Model ----
(***************************************************************************)
(* Model of the Migrator of examples/utils/migration-tools/src/migrator.ts *)
(* together with the collaborators it talks to (migration tool, model      *)
(* loader, connectivity).  Each Migrator (one per client) is a record; the *)
(* synchronous parts of its code are operators on that record, and every   *)
(* awaited external call is a suspension point, resumed by one action.     *)
(***************************************************************************)
EXTENDS Integers, Sequences, FiniteSets, TLC

\* ------------------------------------------------------------------ bounds
MaxMigrations == 2
MaxDisconnects == 1
MaxReentries == 1
MaxFaults == 1
MaxChanges == 1

Clients == {1, 2}
\* every client attaches at most one successor container per migration
MaxId == 1 + Cardinality(Clients) * MaxMigrations
Ids == 1..MaxId

\* TypeScript's undefined, for ids and model references
Undefined == 0

LoaderOps == {"supportsVersion", "createDetached", "loadExistingPaused", "loadExisting"}
ModelOps == {"exportData", "dispose", "transform", "importData", "attach"}
ToolOps == {"volunteerForMigration", "finalizeMigration", "completeMigrationTask"}
Ops == LoaderOps \cup ModelOps \cup ToolOps
Events == {"migrating", "migrationNotSupported", "migrated"}

PreparePcs == {"supportsVersion", "createDetached", "loadExistingPaused",
               "exportData", "transform", "importData"}
CompletePcs == {"volunteer", "attach", "finalize"}
LoadPcs == {"load_supportsVersion", "loadExisting"}
\* positions between which only a microtask boundary lies: nothing else of this
\* client's event loop runs there
MicrotaskPcs == {"prepareAbandoned"}
Pcs == {"idle"} \cup PreparePcs \cup CompletePcs \cup LoadPcs \cup MicrotaskPcs

VARIABLES
    mig,          \* mig[c]: the Migrator object of client c
    tools,        \* tools[s]: the migration tool of session (container) s
    connected,    \* connected[c]: currentMigrationTool.connected as client c sees it
    disconnects,  \* number of disconnections so far (bounded)
    reentries,    \* number of extra dispatcher invocations so far (bounded)
    faults        \* number of protocol violations by a migration tool so far (bounded)

vars == <<mig, tools, connected, disconnects, reentries, faults>>

\* ------------------------------------------------------- the migration tool
\* (interfaces only; its implementation is outside the sources at hand)
NewTool ==
    [exists |-> FALSE, migrationState |-> "collaborating", acceptedMigration |-> FALSE,
     newContainerId |-> Undefined, taskHolder |-> Undefined, taskDone |-> FALSE,
     sequenceNumber |-> 1, migrationSequenceNumber |-> Undefined, pending |-> {}]

haveMigrationTask(T, s, c) == T[s].taskHolder = c

\* ------------------------------------------------------------ the Migrator
currentModel(m) == m.currentMigratable.model

currentMigrationTool(m) == m.currentMigratable.migrationTool

currentModelId(m) == m.currentMigratable.id

migrationState(m, T) == T[currentMigrationTool(m)].migrationState

\* an external call made on behalf of the current session
Call(m, op) == [m EXCEPT !.calls[op] = @ + 1, !.calledSinceMigrating = TRUE]

\* this._events.emit(ev)
Emit(m, ev) ==
    [m EXCEPT !.events[ev] = @ + 1,
              !.calledSinceMigrating = IF ev = "migrating" THEN FALSE ELSE @]

\* what the last "migrated" notification carried, and what its listeners read
\* through the accessors while it was delivered
NoMigrated == [model |-> Undefined, id |-> Undefined,
               read |-> [model |-> Undefined, migrationTool |-> Undefined, id |-> Undefined]]

\* this._events.emit("migrated", model, id)
EmitMigrated(m, model, id) ==
    [Emit(m, "migrated") EXCEPT !.migrated = [model |-> model, id |-> id,
                                              read |-> m.currentMigratable]]

\* the messages of the errors and failed assertions of the Migrator
ErrLoading == "Cannot perform migration, we are currently trying to load"
ErrNoAccepted == "Expect an accepted migration before migration starts"
ErrMigrating == "Cannot start loading the migrated before migration is complete"
ErrNoAcceptedLoad == "Expect an accepted version before migration starts"
ErrNoContainer == "Migration ended without a new container being created"
ErrNotPrepared == "this._preparedDetachedModel should be defined"
ErrConnected == "We should be disconnected"
ErrNotAssigned == "We should be assigned the migration task"
ErrNoNewId == "newContainerId should be defined"
ErrCall == "an awaited call rejected"

\* an exception thrown synchronously out of the dispatcher
Throw(m, e) == [m EXCEPT !.errors = @ \cup {e}]

\* the body's promise rejects: .then() is skipped and .catch(console.error) runs
Reject(m, e) == [m EXCEPT !.pc = "idle", !.errors = @ \cup {e}]

\* History of the current session: the external calls made and the notifications
\* emitted since this Migrator entered it (both start afresh at a session swap).
NoCalls == [o \in Ops |-> 0]

\* Data of a container as one reader sees them: the container, the sequence
\* number up to which its changes are included, and whether unacknowledged
\* local changes of the reader are included.
NoData == [id |-> Undefined, sequenceNumber |-> Undefined, local |-> FALSE]

\* the models dispose() can be called on: the model of a session, or a paused
\* load of it made for export
SessionModel(id) == [paused |-> FALSE, id |-> id]

PausedModel(id) == [paused |-> TRUE, id |-> id]

\* what loadExistingPaused(id, sequenceNumber) resolves to: a separate load of
\* the container, frozen at that sequence number
loadExistingPaused(id, sequenceNumber) ==
    [id |-> id, sequenceNumber |-> sequenceNumber, local |-> FALSE]

NoEvents == [e \in Events |-> 0]

NewMigrator(hasCallback) ==
    [currentMigratable |-> [model |-> 1, migrationTool |-> 1, id |-> 1],
     migrationP |-> FALSE,
     migratedLoadP |-> FALSE,
     preparedDetachedModel |-> Undefined,
     preparedModelId |-> Undefined,
     dataTransformationCallback |-> hasCallback,
     pc |-> "idle",
     capturedTool |-> Undefined,
     migratedId |-> Undefined,
     finalizeArg |-> Undefined,
     detachedModel |-> Undefined,
     transformedData |-> "none",
     importedData |-> "none",
     exportModel |-> NoData,
     exportedData |-> NoData,
     importedFrom |-> NoData,
     disposed |-> {},
     onceMigrating |-> [s \in Ids |-> 0],
     onceConnected |-> [s \in Ids |-> 0],
     calls |-> NoCalls,
     events |-> NoEvents,
     calledSinceMigrating |-> FALSE,
     migrated |-> NoMigrated,
     errors |-> {}]

\* completeTheMigration without its assertion on the prepared model
completeTheMigration_NoAssert(m) ==
    [Call(m, "volunteerForMigration") EXCEPT !.pc = "volunteer"]

\* completeTheMigration up to its first await
completeTheMigration(m) ==
    IF m.preparedDetachedModel = Undefined
    THEN Reject(m, ErrNotPrepared)
    ELSE [Call(m, "volunteerForMigration") EXCEPT !.pc = "volunteer"]

\* doTheMigration preparing again although a prepared model is cached
doTheMigration_AlwaysPrepares(m) ==
    [Call(m, "supportsVersion") EXCEPT !.pc = "supportsVersion"]

\* doTheMigration up to its first await.  It is entered only with the tool in
\* phase migrating, so the phase re-check between the two phases passes.
doTheMigration(m) ==
    IF m.preparedDetachedModel = Undefined
    THEN [Call(m, "supportsVersion") EXCEPT !.pc = "supportsVersion"]
    ELSE completeTheMigration(m)

\* ensureMigrating starting the attempt whether connected or not
ensureMigrating_IgnoresConnectivity(m, T, conn) ==
    LET s == currentMigrationTool(m) IN
    IF m.migrationP THEN m
    ELSE IF m.migratedLoadP THEN Throw(m, ErrLoading)
    ELSE IF ~T[s].acceptedMigration THEN Throw(m, ErrNoAccepted)
    ELSE doTheMigration([Emit(m, "migrating") EXCEPT !.migrationP = TRUE,
                                                     !.capturedTool = s])

\* ensureMigrating arming a "connected" listener next to the attempt it starts
ensureMigrating_ListensWhileRunning(m, T, conn) ==
    LET s == currentMigrationTool(m) IN
    IF ~conn THEN [m EXCEPT !.onceConnected[s] = @ + 1]
    ELSE IF m.migrationP THEN m
    ELSE IF m.migratedLoadP THEN Throw(m, ErrLoading)
    ELSE IF ~T[s].acceptedMigration THEN Throw(m, ErrNoAccepted)
    ELSE doTheMigration([Emit(m, "migrating") EXCEPT !.migrationP = TRUE,
                                                     !.capturedTool = s,
                                                     !.onceConnected[s] = @ + 1])

\* ensureMigrating emitting "migrating" for the first attempt of a session only
ensureMigrating_EmitsOnce(m, T, conn) ==
    LET s == currentMigrationTool(m) IN
    IF ~conn THEN [m EXCEPT !.onceConnected[s] = @ + 1]
    ELSE IF m.migrationP THEN m
    ELSE IF m.migratedLoadP THEN Throw(m, ErrLoading)
    ELSE IF ~T[s].acceptedMigration THEN Throw(m, ErrNoAccepted)
    ELSE doTheMigration([(IF m.events["migrating"] = 0 THEN Emit(m, "migrating") ELSE m)
                            EXCEPT !.migrationP = TRUE, !.capturedTool = s])

\* ensureMigrating using the tool the Migrator was constructed with
ensureMigrating_CapturesInitialTool(m, T, conn) ==
    LET s == currentMigrationTool(m) IN
    IF ~conn THEN [m EXCEPT !.onceConnected[s] = @ + 1]
    ELSE IF m.migrationP THEN m
    ELSE IF m.migratedLoadP THEN Throw(m, ErrLoading)
    ELSE IF ~T[s].acceptedMigration THEN Throw(m, ErrNoAccepted)
    ELSE doTheMigration([Emit(m, "migrating") EXCEPT !.migrationP = TRUE,
                                                     !.capturedTool = 1])

\* ensureMigrating without its re-entry guard on the migration marker
ensureMigrating_NoReentryGuard(m, T, conn) ==
    LET s == currentMigrationTool(m) IN
    IF ~conn THEN [m EXCEPT !.onceConnected[s] = @ + 1]
    ELSE IF m.migratedLoadP THEN Throw(m, ErrLoading)
    ELSE IF ~T[s].acceptedMigration THEN Throw(m, ErrNoAccepted)
    ELSE doTheMigration([Emit(m, "migrating") EXCEPT !.migrationP = TRUE,
                                                     !.capturedTool = s])

\* ensureMigrating not looking at acceptedMigration
ensureMigrating_NoAcceptedCheck(m, T, conn) ==
    LET s == currentMigrationTool(m) IN
    IF ~conn THEN [m EXCEPT !.onceConnected[s] = @ + 1]
    ELSE IF m.migrationP THEN m
    ELSE IF m.migratedLoadP THEN Throw(m, ErrLoading)
    ELSE doTheMigration([Emit(m, "migrating") EXCEPT !.migrationP = TRUE,
                                                     !.capturedTool = s])

\* ensureMigrating emitting "migrating" after it has invoked doTheMigration
ensureMigrating_EmitsLate(m, T, conn) ==
    LET s == currentMigrationTool(m) IN
    IF ~conn THEN [m EXCEPT !.onceConnected[s] = @ + 1]
    ELSE IF m.migrationP THEN m
    ELSE IF m.migratedLoadP THEN Throw(m, ErrLoading)
    ELSE IF ~T[s].acceptedMigration THEN Throw(m, ErrNoAccepted)
    ELSE Emit(doTheMigration([m EXCEPT !.migrationP = TRUE, !.capturedTool = s]),
              "migrating")

ensureMigrating(m, T, conn) ==
    LET s == currentMigrationTool(m) IN
    IF ~conn THEN [m EXCEPT !.onceConnected[s] = @ + 1]
    ELSE IF m.migrationP THEN m
    ELSE IF m.migratedLoadP THEN Throw(m, ErrLoading)
    ELSE IF ~T[s].acceptedMigration THEN Throw(m, ErrNoAccepted)
    ELSE doTheMigration([Emit(m, "migrating") EXCEPT !.migrationP = TRUE,
                                                     !.capturedTool = s])

\* ensureLoading without its re-entry guard on the load marker
ensureLoading_NoReentryGuard(m, T) ==
    LET s == currentMigrationTool(m) IN
    IF m.migrationP THEN Throw(m, ErrMigrating)
    ELSE IF ~T[s].acceptedMigration THEN Throw(m, ErrNoAcceptedLoad)
    ELSE IF T[s].newContainerId = Undefined THEN Throw(m, ErrNoContainer)
    ELSE [Call(m, "supportsVersion") EXCEPT !.pc = "load_supportsVersion",
                                            !.migratedLoadP = TRUE,
                                            !.migratedId = T[s].newContainerId]

\* ensureLoading not looking at acceptedMigration
ensureLoading_NoAcceptedCheck(m, T) ==
    LET s == currentMigrationTool(m) IN
    IF m.migratedLoadP THEN m
    ELSE IF m.migrationP THEN Throw(m, ErrMigrating)
    ELSE IF T[s].newContainerId = Undefined THEN Throw(m, ErrNoContainer)
    ELSE [Call(m, "supportsVersion") EXCEPT !.pc = "load_supportsVersion",
                                            !.migratedLoadP = TRUE,
                                            !.migratedId = T[s].newContainerId]

\* ensureLoading without its check of the migration marker
ensureLoading_NoMigrationCheck(m, T) ==
    LET s == currentMigrationTool(m) IN
    IF m.migratedLoadP THEN m
    ELSE IF ~T[s].acceptedMigration THEN Throw(m, ErrNoAcceptedLoad)
    ELSE IF T[s].newContainerId = Undefined THEN Throw(m, ErrNoContainer)
    ELSE [Call(m, "supportsVersion") EXCEPT !.pc = "load_supportsVersion",
                                            !.migratedLoadP = TRUE,
                                            !.migratedId = T[s].newContainerId]

ensureLoading(m, T) ==
    LET s == currentMigrationTool(m) IN
    IF m.migratedLoadP THEN m
    ELSE IF m.migrationP THEN Throw(m, ErrMigrating)
    ELSE IF ~T[s].acceptedMigration THEN Throw(m, ErrNoAcceptedLoad)
    ELSE IF T[s].newContainerId = Undefined THEN Throw(m, ErrNoContainer)
    ELSE [Call(m, "supportsVersion") EXCEPT !.pc = "load_supportsVersion",
                                            !.migratedLoadP = TRUE,
                                            !.migratedId = T[s].newContainerId]

\* the dispatcher waiting for "connected" instead of "migrating" while the tool
\* is collaborating
takeAppropriateActionForCurrentMigratable_ListensForConnected(m, T, conn) ==
    LET st == migrationState(m, T) IN
    IF st = "migrating" THEN ensureMigrating(m, T, conn)
    ELSE IF st = "migrated" THEN ensureLoading(m, T)
    ELSE [m EXCEPT !.onceConnected[currentMigrationTool(m)] = @ + 1]

takeAppropriateActionForCurrentMigratable(m, T, conn) ==
    LET st == migrationState(m, T) IN
    IF st = "migrating" THEN ensureMigrating(m, T, conn)
    ELSE IF st = "migrated" THEN ensureLoading(m, T)
    ELSE [m EXCEPT !.onceMigrating[currentMigrationTool(m)] = @ + 1]

\* the .then() block forgetting to clear the marker
thenBlock_KeepsMarker(m, T, conn) ==
    IF conn /\ T[currentMigrationTool(m)].newContainerId = Undefined
    THEN Reject(m, ErrNoNewId)
    ELSE takeAppropriateActionForCurrentMigratable([m EXCEPT !.pc = "idle"], T, conn)

\* the .then() block run when the body of doTheMigration resolves
thenBlock(m, T, conn) ==
    IF conn /\ T[currentMigrationTool(m)].newContainerId = Undefined
    THEN Reject(m, ErrNoNewId)
    ELSE takeAppropriateActionForCurrentMigratable(
             [m EXCEPT !.pc = "idle", !.migrationP = FALSE], T, conn)

\* doTheMigration arming a retry for the next "connected" event when its
\* preparation was given up
afterPrepare_Retries(m, T, conn) ==
    IF migrationState(m, T) # "migrating"
    THEN thenBlock(m, T, conn)
    ELSE IF m.preparedDetachedModel = Undefined
    THEN [m EXCEPT !.pc = "idle", !.onceConnected[currentMigrationTool(m)] = @ + 1]
    ELSE completeTheMigration(m)

\* doTheMigration after prepareTheMigration returned (or was skipped)
afterPrepare(m, T, conn) ==
    IF migrationState(m, T) # "migrating"
    THEN thenBlock(m, T, conn)
    ELSE completeTheMigration(m)

\* n one-time listeners, all bound to the dispatcher, are delivered one event
RECURSIVE Deliver(_, _, _, _)
Deliver(m, n, T, conn) ==
    IF n = 0 THEN m
    ELSE Deliver(takeAppropriateActionForCurrentMigratable(m, T, conn), n - 1, T, conn)

RECURSIVE SumOver(_, _)
SumOver(f, S) ==
    IF S = {} THEN 0
    ELSE LET x == CHOOSE y \in S : TRUE IN f[x] + SumOver(f, S \ {x})

\* ---------------------------------------------------------------- initial
Init ==
    /\ tools = [s \in Ids |-> IF s = 1 THEN [NewTool EXCEPT !.exists = TRUE] ELSE NewTool]
    /\ connected = [c \in Clients |-> TRUE]
    /\ \E cb \in [Clients -> BOOLEAN] :
         mig = [c \in Clients |->
                  takeAppropriateActionForCurrentMigratable(NewMigrator(cb[c]), tools, connected[c])]
    /\ disconnects = 0
    /\ reentries = 0
    /\ faults = 0

\* the client's record after step f, everything else of mig unchanged
SetMig(c, m) == mig' = [mig EXCEPT ![c] = m]

\* ------------------------------------------------------- the environment
\* The tool of session s records an accepted migration: phase collaborating ->
\* migrating, and its "migrating" event reaches every one-time listener.
Accept(s) ==
    /\ tools[s].exists
    /\ tools[s].migrationState = "collaborating"
    /\ \E c \in Clients : currentModelId(mig[c]) = s
    /\ Cardinality({x \in Ids : tools[x].acceptedMigration}) < MaxMigrations
    /\ tools' = [tools EXCEPT ![s].acceptedMigration = TRUE,
                              ![s].migrationSequenceNumber = tools[s].sequenceNumber,
                              ![s].migrationState = "migrating"]
    /\ \A c \in Clients : mig[c].pc \notin MicrotaskPcs
    /\ mig' = [c \in Clients |->
                 Deliver([mig[c] EXCEPT !.onceMigrating[s] = 0],
                         mig[c].onceMigrating[s], tools', connected[c])]
    /\ UNCHANGED <<connected, disconnects, reentries, faults>>

\* Client c loses its connection; a disconnected client holds no task.
Disconnect(c) ==
    /\ connected[c]
    /\ disconnects < MaxDisconnects
    /\ mig[c].pc \notin MicrotaskPcs
    /\ connected' = [connected EXCEPT ![c] = FALSE]
    /\ disconnects' = disconnects + 1
    /\ tools' = [s \in Ids |->
                   IF tools[s].taskHolder = c
                   THEN [tools[s] EXCEPT !.taskHolder = Undefined]
                   ELSE tools[s]]
    /\ UNCHANGED <<mig, reentries, faults>>

\* Client c reconnects: the "connected" event reaches its one-time listeners.
Connect(c) ==
    /\ ~connected[c]
    /\ mig[c].pc \notin MicrotaskPcs
    /\ connected' = [connected EXCEPT ![c] = TRUE]
    /\ SetMig(c, Deliver([mig[c] EXCEPT !.onceConnected = [s \in Ids |-> 0]],
                         SumOver(mig[c].onceConnected, Ids), tools, TRUE))
    /\ UNCHANGED <<tools, disconnects, reentries, faults>>

\* ------------------------------------------- prepareTheMigration, resumed
SupportsVersionReturns(c) ==
    /\ mig[c].pc = "supportsVersion"
    /\ \E migrationSupported \in BOOLEAN :
         SetMig(c, IF ~migrationSupported
                   THEN [Emit(mig[c], "migrationNotSupported")
                            EXCEPT !.migrationP = FALSE, !.pc = "prepareAbandoned"]
                   ELSE [Call(mig[c], "createDetached") EXCEPT !.pc = "createDetached"])
    /\ UNCHANGED <<tools, connected, disconnects, reentries, faults>>

\* prepareTheMigration loading the export model at the container's latest
\* sequence number
CreateDetachedReturns_LoadsLatest(c) ==
    /\ mig[c].pc = "createDetached"
    /\ SetMig(c, [Call(mig[c], "loadExistingPaused")
                     EXCEPT !.pc = "loadExistingPaused",
                            !.detachedModel = currentModelId(mig[c]),
                            !.exportModel =
                                loadExistingPaused(currentModelId(mig[c]),
                                    tools[mig[c].capturedTool].sequenceNumber)])
    /\ UNCHANGED <<tools, connected, disconnects, reentries, faults>>

\* createDetached resolved: loadExistingPaused is called with the current id and
\* the sequence number of the accepted migration
CreateDetachedReturns(c) ==
    /\ mig[c].pc = "createDetached"
    /\ SetMig(c, [Call(mig[c], "loadExistingPaused")
                     EXCEPT !.pc = "loadExistingPaused",
                            !.detachedModel = currentModelId(mig[c]),
                            !.exportModel =
                                loadExistingPaused(currentModelId(mig[c]),
                                    tools[mig[c].capturedTool].migrationSequenceNumber)])
    /\ UNCHANGED <<tools, connected, disconnects, reentries, faults>>

LoadExistingPausedReturns(c) ==
    /\ mig[c].pc = "loadExistingPaused"
    /\ SetMig(c, [Call(mig[c], "exportData") EXCEPT !.pc = "exportData"])
    /\ UNCHANGED <<tools, connected, disconnects, reentries, faults>>

\* exportData resolved: dispose the export model, then choose the data to import
ExportDataReturns(c) ==
    /\ mig[c].pc = "exportData"
    /\ \E supportsDataFormat \in BOOLEAN :
         LET m == [Call(mig[c], "dispose")
                      EXCEPT !.exportedData = mig[c].exportModel,
                             !.disposed = @ \cup {PausedModel(mig[c].exportModel.id)},
                             !.exportModel = NoData]
         IN
         SetMig(c, IF supportsDataFormat
                   THEN [Call(m, "importData") EXCEPT !.pc = "importData",
                                                      !.transformedData = "exported"]
                   ELSE IF m.dataTransformationCallback
                   THEN [Call(m, "transform") EXCEPT !.pc = "transform"]
                   ELSE [Emit(m, "migrationNotSupported")
                            EXCEPT !.migrationP = FALSE, !.pc = "prepareAbandoned",
                                   !.detachedModel = Undefined,
                                   !.exportedData = NoData])
    /\ UNCHANGED <<tools, connected, disconnects, reentries, faults>>

\* the callback's result dropped and the exported data imported as they are
TransformReturns_KeepsExported(c) ==
    /\ mig[c].pc = "transform"
    /\ SetMig(c, [Call(mig[c], "importData") EXCEPT !.pc = "importData",
                                                    !.transformedData = "exported"])
    /\ UNCHANGED <<tools, connected, disconnects, reentries, faults>>

\* the callback resolved: its result is what will be imported
TransformReturns(c) ==
    /\ mig[c].pc = "transform"
    /\ SetMig(c, [Call(mig[c], "importData") EXCEPT !.pc = "importData",
                                                    !.transformedData = "transformed"])
    /\ UNCHANGED <<tools, connected, disconnects, reentries, faults>>

\* the catch block of the callback leaving the in-flight marker set
TransformThrows_KeepsMarker(c) ==
    /\ mig[c].pc = "transform"
    /\ SetMig(c, [Emit(mig[c], "migrationNotSupported")
                     EXCEPT !.pc = "prepareAbandoned", !.detachedModel = Undefined,
                            !.exportedData = NoData])
    /\ UNCHANGED <<tools, connected, disconnects, reentries, faults>>

\* the callback threw: prepareTheMigration gives up
TransformThrows(c) ==
    /\ mig[c].pc = "transform"
    /\ SetMig(c, [Emit(mig[c], "migrationNotSupported")
                     EXCEPT !.migrationP = FALSE, !.pc = "prepareAbandoned",
                            !.detachedModel = Undefined,
                            !.exportedData = NoData])
    /\ UNCHANGED <<tools, connected, disconnects, reentries, faults>>

\* importData resolved: cache the prepared model; doTheMigration goes on
ImportDataReturns(c) ==
    /\ mig[c].pc = "importData"
    /\ SetMig(c, afterPrepare([mig[c] EXCEPT !.preparedDetachedModel = mig[c].detachedModel,
                                             !.importedData = mig[c].transformedData,
                                             !.importedFrom = mig[c].exportedData,
                                             !.exportedData = NoData,
                                             !.detachedModel = Undefined,
                                             !.transformedData = "none"],
                              tools, connected[c]))
    /\ UNCHANGED <<tools, connected, disconnects, reentries, faults>>

\* prepareTheMigration returned after giving up: doTheMigration goes on
PrepareAbandonedContinues(c) ==
    /\ mig[c].pc = "prepareAbandoned"
    /\ SetMig(c, afterPrepare(mig[c], tools, connected[c]))
    /\ UNCHANGED <<tools, connected, disconnects, reentries, faults>>

\* ------------------------------------------ completeTheMigration, resumed
\* the smallest id no container has yet
FreshId == CHOOSE i \in Ids : ~tools[i].exists /\ \A j \in Ids : j < i => tools[j].exists

\* completeTheMigration making the attached container the current id at once
afterAttach_AdoptsId(m, T, c, conn) ==
    IF ~haveMigrationTask(T, currentMigrationTool(m), c)
    THEN thenBlock(m, T, conn)
    ELSE [Call(m, "finalizeMigration") EXCEPT !.pc = "finalize",
                                              !.finalizeArg = m.preparedModelId,
                                              !.currentMigratable.id = m.preparedModelId]

\* completeTheMigration finalizing with the id of the current session
afterAttach_FinalizesCurrentId(m, T, c, conn) ==
    IF ~haveMigrationTask(T, currentMigrationTool(m), c)
    THEN thenBlock(m, T, conn)
    ELSE [Call(m, "finalizeMigration") EXCEPT !.pc = "finalize",
                                              !.finalizeArg = currentModelId(m)]

\* completeTheMigration after the task check that follows attach (lines 257-263)
afterAttach(m, T, c, conn) ==
    IF ~haveMigrationTask(T, currentMigrationTool(m), c)
    THEN thenBlock(m, T, conn)
    ELSE [Call(m, "finalizeMigration") EXCEPT !.pc = "finalize",
                                              !.finalizeArg = m.preparedModelId]

\* completeTheMigration without its assertion on isAssigned
afterVolunteer_NoAssert(m, T, c, conn, isAssigned) ==
    IF T[currentMigrationTool(m)].newContainerId # Undefined
    THEN thenBlock(m, T, conn)
    ELSE IF m.preparedModelId = Undefined
    THEN [Call(m, "attach") EXCEPT !.pc = "attach"]
    ELSE afterAttach(m, T, c, conn)

\* completeTheMigration attaching whether or not an id is cached
afterVolunteer_AlwaysAttaches(m, T, c, conn, isAssigned) ==
    IF T[currentMigrationTool(m)].newContainerId # Undefined
    THEN thenBlock(m, T, conn)
    ELSE IF ~isAssigned
    THEN Reject(m, ErrNotAssigned)
    ELSE [Call(m, "attach") EXCEPT !.pc = "attach"]

\* completeTheMigration not looking at newContainerId after volunteering
afterVolunteer_NoRaceCheck(m, T, c, conn, isAssigned) ==
    IF ~isAssigned
    THEN Reject(m, ErrNotAssigned)
    ELSE IF m.preparedModelId = Undefined
    THEN [Call(m, "attach") EXCEPT !.pc = "attach"]
    ELSE afterAttach(m, T, c, conn)

\* completeTheMigration after volunteerForMigration resolved with isAssigned
afterVolunteer(m, T, c, conn, isAssigned) ==
    IF T[currentMigrationTool(m)].newContainerId # Undefined
    THEN thenBlock(m, T, conn)
    ELSE IF ~isAssigned
    THEN Reject(m, ErrNotAssigned)
    ELSE IF m.preparedModelId = Undefined
    THEN [Call(m, "attach") EXCEPT !.pc = "attach"]
    ELSE afterAttach(m, T, c, conn)

\* volunteerForMigration resolves: true once the task is assigned to c (it waits
\* while another client holds it), false when the task was completed
VolunteerReturns(c) ==
    LET s == currentMigrationTool(mig[c]) IN
    /\ mig[c].pc = "volunteer"
    /\ connected[c]
    /\ \/ /\ tools[s].taskDone
          /\ tools' = tools
          /\ SetMig(c, afterVolunteer(mig[c], tools', c, connected[c], FALSE))
       \/ /\ ~tools[s].taskDone
          /\ tools[s].taskHolder \in {Undefined, c}
          /\ tools' = [tools EXCEPT ![s].taskHolder = c]
          /\ SetMig(c, afterVolunteer(mig[c], tools', c, connected[c], TRUE))
    /\ UNCHANGED <<connected, disconnects, reentries, faults>>

\* volunteerForMigration throws on disconnection; the catch block asserts that the
\* client is disconnected and returns
VolunteerThrows(c) ==
    /\ mig[c].pc = "volunteer"
    /\ ~connected[c]
    /\ SetMig(c, IF connected[c] THEN Reject(mig[c], ErrConnected)
                 ELSE thenBlock(mig[c], tools, connected[c]))
    /\ UNCHANGED <<tools, connected, disconnects, reentries, faults>>

\* attach resolves with the id of a new container, which has a tool of its own
AttachReturns(c) ==
    /\ mig[c].pc = "attach"
    /\ \E i \in Ids : ~tools[i].exists
    /\ tools' = [tools EXCEPT ![FreshId].exists = TRUE]
    /\ SetMig(c, afterAttach([mig[c] EXCEPT !.preparedModelId = FreshId],
                             tools', c, connected[c]))
    /\ UNCHANGED <<connected, disconnects, reentries, faults>>

\* finalizeMigration(id) resolves on the captured tool: the first id written stays;
\* then completeMigrationTask() and the body resolves.  The new phase reaches the
\* other clients as a task of their event loops, never inside a microtask gap.
FinalizeReturns(c) ==
    LET s == mig[c].capturedTool
        t == currentMigrationTool(mig[c]) IN
    /\ mig[c].pc = "finalize"
    /\ connected[c]
    /\ \A d \in Clients : mig[d].pc \notin MicrotaskPcs
    /\ LET T1 == IF tools[s].newContainerId = Undefined
                 THEN [tools EXCEPT ![s].newContainerId = mig[c].finalizeArg,
                                    ![s].migrationState = "migrated"]
                 ELSE tools
           T2 == IF haveMigrationTask(T1, t, c)
                 THEN [T1 EXCEPT ![t].taskHolder = Undefined, ![t].taskDone = TRUE]
                 ELSE T1
       IN /\ tools' = T2
          /\ SetMig(c, thenBlock([Call(mig[c], "completeMigrationTask")
                                      EXCEPT !.finalizeArg = Undefined],
                                  T2, connected[c]))
    /\ UNCHANGED <<connected, disconnects, reentries, faults>>

\* ------------------------------------------------------ doTheLoad, resumed
\* doTheLoad resetting the retry values when it aborts
LoadSupportsVersionReturns_ClearsCache(c) ==
    /\ mig[c].pc = "load_supportsVersion"
    /\ \E migrationSupported \in BOOLEAN :
         SetMig(c, IF ~migrationSupported
                   THEN [Emit(mig[c], "migrationNotSupported")
                            EXCEPT !.migratedLoadP = FALSE, !.pc = "idle",
                                   !.preparedDetachedModel = Undefined,
                                   !.preparedModelId = Undefined]
                   ELSE [Call(mig[c], "loadExisting") EXCEPT !.pc = "loadExisting"])
    /\ UNCHANGED <<tools, connected, disconnects, reentries, faults>>

\* doTheLoad returning on an unsupported version with its marker still set
LoadSupportsVersionReturns_KeepsMarker(c) ==
    /\ mig[c].pc = "load_supportsVersion"
    /\ \E migrationSupported \in BOOLEAN :
         SetMig(c, IF ~migrationSupported
                   THEN [Emit(mig[c], "migrationNotSupported") EXCEPT !.pc = "idle"]
                   ELSE [Call(mig[c], "loadExisting") EXCEPT !.pc = "loadExisting"])
    /\ UNCHANGED <<tools, connected, disconnects, reentries, faults>>

\* doTheLoad going on to loadExisting after it reported the version unsupported
LoadSupportsVersionReturns_LoadsAnyway(c) ==
    /\ mig[c].pc = "load_supportsVersion"
    /\ \E migrationSupported \in BOOLEAN :
         SetMig(c, IF ~migrationSupported
                   THEN [Call(Emit(mig[c], "migrationNotSupported"), "loadExisting")
                            EXCEPT !.pc = "loadExisting"]
                   ELSE [Call(mig[c], "loadExisting") EXCEPT !.pc = "loadExisting"])
    /\ UNCHANGED <<tools, connected, disconnects, reentries, faults>>

LoadSupportsVersionReturns(c) ==
    /\ mig[c].pc = "load_supportsVersion"
    /\ \E migrationSupported \in BOOLEAN :
         SetMig(c, IF ~migrationSupported
                   THEN [Emit(mig[c], "migrationNotSupported")
                            EXCEPT !.migratedLoadP = FALSE, !.pc = "idle"]
                   ELSE [Call(mig[c], "loadExisting") EXCEPT !.pc = "loadExisting"])
    /\ UNCHANGED <<tools, connected, disconnects, reentries, faults>>

\* what loadExisting(id) resolves to, with the id it was asked for
loadExisting(id) == [model |-> id, migrationTool |-> id, id |-> id]

\* doTheLoad's bookkeeping without the reset of the retry values
afterMigrated_KeepsCache(m) ==
    [m EXCEPT !.calls = NoCalls,
              !.events = [NoEvents EXCEPT !["migrated"] = 1],
              !.calledSinceMigrating = FALSE,
              !.migratedLoadP = FALSE,
              !.importedData = "none",
              !.importedFrom = NoData,
              !.disposed = {},
              !.migratedId = Undefined,
              !.pc = "idle"]

\* doTheLoad's bookkeeping after the "migrated" notification (lines 346-350); the
\* history of calls and notifications starts afresh with the new session
afterMigrated(m) ==
    [m EXCEPT !.calls = NoCalls,
              !.events = [NoEvents EXCEPT !["migrated"] = 1],
              !.calledSinceMigrating = FALSE,
              !.migratedLoadP = FALSE,
              !.preparedDetachedModel = Undefined,
              !.preparedModelId = Undefined,
              !.importedData = "none",
              !.importedFrom = NoData,
              !.disposed = {},
              !.migratedId = Undefined,
              !.pc = "idle"]

\* the swap replacing the model and the id but not the migration tool
swap_KeepsTool(m, T, conn) ==
    LET new == loadExisting(m.migratedId)
        m1 == [m EXCEPT !.currentMigratable.model = new.model,
                        !.currentMigratable.id = new.id]
    IN afterMigrated(EmitMigrated(m1, new.model, m.migratedId))

\* the swap made after the "migrated" notification instead of before it
swap_EmitsFirst(m, T, conn) ==
    LET new == loadExisting(m.migratedId)
        m1 == EmitMigrated(m, new.model, m.migratedId)
    IN takeAppropriateActionForCurrentMigratable(
           afterMigrated([m1 EXCEPT !.currentMigratable =
                                       [model |-> new.model,
                                        migrationTool |-> new.migrationTool,
                                        id |-> m.migratedId]]), T, conn)

\* doTheLoad disposing the model it has just replaced
swap_DisposesOld(m, T, conn) ==
    LET new == loadExisting(m.migratedId)
        m1 == [m EXCEPT !.currentMigratable = [model |-> new.model,
                                               migrationTool |-> new.migrationTool,
                                               id |-> m.migratedId]]
        m2 == afterMigrated(EmitMigrated(m1, new.model, m.migratedId))
    IN takeAppropriateActionForCurrentMigratable(
           [Call(m2, "dispose") EXCEPT !.disposed = {SessionModel(currentModel(m))}],
           T, conn)

\* doTheLoad ending without running the dispatcher on the new session
swap_NoDispatch(m, T, conn) ==
    LET new == loadExisting(m.migratedId)
        m1 == [m EXCEPT !.currentMigratable = [model |-> new.model,
                                               migrationTool |-> new.migrationTool,
                                               id |-> m.migratedId]]
    IN afterMigrated(EmitMigrated(m1, new.model, m.migratedId))

\* doTheLoad from the swap to its end (lines 340-353)
swap(m, T, conn) ==
    LET new == loadExisting(m.migratedId)
        m1 == [m EXCEPT !.currentMigratable = [model |-> new.model,
                                               migrationTool |-> new.migrationTool,
                                               id |-> m.migratedId]]
    IN takeAppropriateActionForCurrentMigratable(
           afterMigrated(EmitMigrated(m1, new.model, m.migratedId)), T, conn)

LoadExistingReturns(c) ==
    /\ mig[c].pc = "loadExisting"
    /\ SetMig(c, swap(mig[c], tools, connected[c]))
    /\ UNCHANGED <<tools, connected, disconnects, reentries, faults>>

\* ------------------------------------------------------------- failures
\* a failed call handled by clearing the markers and waiting for "connected"
CallFails_Recovers(c) ==
    /\ mig[c].pc \in (PreparePcs \cup {"attach", "finalize"} \cup LoadPcs)
    /\ ~connected[c]
    /\ SetMig(c, [Reject([mig[c] EXCEPT !.finalizeArg = Undefined,
                                        !.detachedModel = Undefined,
                                        !.transformedData = "none",
                                        !.exportModel = NoData,
                                        !.exportedData = NoData], ErrCall)
                     EXCEPT !.migrationP = FALSE,
                            !.migratedLoadP = FALSE,
                            !.onceConnected[currentMigrationTool(mig[c])] = @ + 1])
    /\ UNCHANGED <<tools, connected, disconnects, reentries, faults>>

\* An awaited call other than volunteerForMigration fails while the client is
\* disconnected: nothing catches it, the body rejects.
CallFails(c) ==
    /\ mig[c].pc \in (PreparePcs \cup {"attach", "finalize"} \cup LoadPcs)
    /\ ~connected[c]
    /\ SetMig(c, Reject([mig[c] EXCEPT !.finalizeArg = Undefined, !.detachedModel = Undefined,
                                        !.transformedData = "none",
                                        !.exportModel = NoData,
                                        !.exportedData = NoData], ErrCall))
    /\ UNCHANGED <<tools, connected, disconnects, reentries, faults>>

\* --------------------------------------------------------- re-entrant calls
\* The dispatcher is invoked once more, from any trigger point, between two tasks
\* of the client's event loop.
Reenter(c) ==
    /\ reentries < MaxReentries
    /\ mig[c].pc \notin MicrotaskPcs
    /\ reentries' = reentries + 1
    /\ SetMig(c, takeAppropriateActionForCurrentMigratable(mig[c], tools, connected[c]))
    /\ UNCHANGED <<tools, connected, disconnects, faults>>

\* ------------------------------------------------------ protocol violations
\* what a migration tool must never report: phase migrating without an accepted
\* migration, phase migrated without an accepted migration or a newContainerId
BadToolStates ==
    {b \in [migrationState : {"migrating", "migrated"},
            acceptedMigration : BOOLEAN,
            newContainerId : {Undefined, 1}] :
        \/ /\ b.migrationState = "migrating"
           /\ ~b.acceptedMigration
           /\ b.newContainerId = Undefined
        \/ /\ b.migrationState = "migrated"
           /\ ~b.acceptedMigration \/ b.newContainerId = Undefined}

\* The tool of session s leaves phase collaborating for a state it must never
\* report; entering phase migrating fires its "migrating" event.
ToolViolates(s) ==
    /\ faults < MaxFaults
    /\ tools[s].exists
    /\ tools[s].migrationState = "collaborating"
    /\ \A c \in Clients : mig[c].pc \notin MicrotaskPcs
    /\ \E b \in BadToolStates :
         /\ tools' = [tools EXCEPT ![s].migrationState = b.migrationState,
                                   ![s].acceptedMigration = b.acceptedMigration,
                                   ![s].newContainerId = b.newContainerId]
         /\ mig' = [c \in Clients |->
                      IF b.migrationState = "migrating"
                      THEN Deliver([mig[c] EXCEPT !.onceMigrating[s] = 0],
                                   mig[c].onceMigrating[s], tools', connected[c])
                      ELSE mig[c]]
    /\ faults' = faults + 1
    /\ UNCHANGED <<connected, disconnects, reentries>>

\* volunteerForMigration resolves false although nobody completed the migration
VolunteerRefused(c) ==
    LET s == currentMigrationTool(mig[c]) IN
    /\ faults < MaxFaults
    /\ mig[c].pc = "volunteer"
    /\ connected[c]
    /\ tools[s].newContainerId = Undefined
    /\ SetMig(c, afterVolunteer(mig[c], tools, c, connected[c], FALSE))
    /\ faults' = faults + 1
    /\ UNCHANGED <<tools, connected, disconnects, reentries>>

\* ------------------------------------------------- changes to the containers
\* the changes made so far to all containers, sequenced or not
Changes == SumOver([s \in Ids |-> tools[s].sequenceNumber - 1 + Cardinality(tools[s].pending)],
                   Ids)

\* Client c edits its current model: a local change, not yet acknowledged.
LocalChange(c) ==
    LET s == currentModelId(mig[c]) IN
    /\ Changes < MaxChanges
    /\ c \notin tools[s].pending
    /\ mig[c].pc \notin MicrotaskPcs
    /\ tools' = [tools EXCEPT ![s].pending = @ \cup {c}]
    /\ UNCHANGED <<mig, connected, disconnects, reentries, faults>>

\* The service sequences the pending change of a connected client: it gets the
\* next sequence number of the container and is acknowledged.
Sequence(s) ==
    /\ \A d \in Clients : mig[d].pc \notin MicrotaskPcs
    /\ \E c \in tools[s].pending :
         /\ connected[c]
         /\ tools' = [tools EXCEPT ![s].pending = @ \ {c},
                                   ![s].sequenceNumber = @ + 1]
    /\ UNCHANGED <<mig, connected, disconnects, reentries, faults>>

\* ---------------------------------------------------------------- the system
Step(c) ==
    \/ SupportsVersionReturns(c)
    \/ CreateDetachedReturns(c)
    \/ LoadExistingPausedReturns(c)
    \/ ExportDataReturns(c)
    \/ TransformReturns(c)
    \/ TransformThrows(c)
    \/ ImportDataReturns(c)
    \/ PrepareAbandonedContinues(c)
    \/ VolunteerReturns(c)
    \/ VolunteerThrows(c)
    \/ AttachReturns(c)
    \/ FinalizeReturns(c)
    \/ LoadSupportsVersionReturns(c)
    \/ LoadExistingReturns(c)

Next ==
    \/ \E s \in Ids : Accept(s)
    \/ \E c \in Clients : Disconnect(c)
    \/ \E c \in Clients : Connect(c)
    \/ \E c \in Clients : Step(c)
    \/ \E c \in Clients : CallFails(c)

Spec == Init /\ [][Next]_vars

\* the same system with extra dispatcher invocations
NextReentry ==
    \/ Next
    \/ \E c \in Clients : Reenter(c)

SpecReentry == Init /\ [][NextReentry]_vars

\* the same system with a migration tool that may break its contract
NextFaulty ==
    \/ Next
    \/ \E s \in Ids : ToolViolates(s)
    \/ \E c \in Clients : VolunteerRefused(c)

SpecFaulty == Init /\ [][NextFaulty]_vars

\* the same system with clients editing the containers
NextData ==
    \/ Next
    \/ \E c \in Clients : LocalChange(c)
    \/ \E s \in Ids : Sequence(s)

SpecData == Init /\ [][NextData]_vars

TypeOK ==
    /\ \A c \in Clients : mig[c].pc \in Pcs
    /\ connected \in [Clients -> BOOLEAN]

\* ================================================================= claims
MigrationPcs == PreparePcs \cup CompletePcs \cup MicrotaskPcs

\* C1: in every reachable state of a Migrator, whatever dispatcher invocations,
\* phase changes and connect/disconnect events occurred, a migration attempt and
\* a post-migration load are never both in flight.
C1_AtMostOneInFlight ==
    \A c \in Clients : ~(mig[c].migrationP /\ mig[c].migratedLoadP)

\* C1 witness: the dispatcher ran while an attempt was in flight on a tool that
\* had become migrated, and refused to start the load.
C1_Witness ==
    \E c \in Clients :
        /\ mig[c].migrationP
        /\ mig[c].pc \in MigrationPcs
        /\ migrationState(mig[c], tools) = "migrated"
        /\ ErrMigrating \in mig[c].errors
        /\ reentries > 0

\* C2: the triple read through currentModel, currentMigrationTool and
\* currentModelId always belongs to one session: the initial triple or exactly
\* what one loadExisting of a finalized container id produced.
C2_ConsistentTriple ==
    \A c \in Clients :
        LET cm == mig[c].currentMigratable IN
        /\ cm = loadExisting(currentModelId(mig[c]))
        /\ currentModel(mig[c]) = currentMigrationTool(mig[c])
        /\ \/ cm.id = 1
           \/ \E s \in Ids : tools[s].newContainerId = cm.id

\* C2 witness: a client has swapped to a successor session.
C2_Witness ==
    \E c \in Clients :
        /\ currentModelId(mig[c]) # 1
        /\ mig[c].events["migrated"] = 1

\* the Migrator of client c has no pending continuation: no body is running and
\* no one-time listener is registered, so nothing will ever run its code again
Quiescent(c) ==
    /\ mig[c].pc = "idle"
    /\ \A s \in Ids : mig[c].onceMigrating[s] = 0 /\ mig[c].onceConnected[s] = 0

\* C3: with a tool going collaborating -> migrating -> migrated and a connection
\* that eventually stays up, currentModelId eventually equals the newContainerId
\* of the initial tool, with exactly one "migrated" notification.  Stated on
\* finite runs: a connected Migrator whose loader supports the version and whose
\* awaited calls all succeeded is never left on the initial session with nothing
\* pending, and has emitted one "migrated" once it is on the successor.
C3_Convergence ==
    \A c \in Clients :
        /\ ( /\ tools[1].acceptedMigration
             /\ connected[c]
             /\ Quiescent(c)
             /\ ErrCall \notin mig[c].errors
             /\ mig[c].events["migrationNotSupported"] = 0 )
           => currentModelId(mig[c]) # 1
        /\ currentModelId(mig[c]) # 1 => mig[c].events["migrated"] = 1

\* the sessions reached from session i by following newContainerId
RECURSIVE ChainFrom(_)
ChainFrom(i) ==
    IF tools[i].newContainerId = Undefined THEN {i}
    ELSE {i} \cup ChainFrom(tools[i].newContainerId)

\* C4: with several clients sharing one migration tool, all clients that swap
\* for a migration end on the same session (the tool's newContainerId), and no
\* client that stays connected is left on the predecessor session.  Stated on
\* finite runs for clients whose loader supports the version and whose awaited
\* calls all succeeded: every client is on the chain of finalized sessions, and
\* no connected client with nothing pending sits on a session already migrated.
C4_AllClientsConverge ==
    \A c \in Clients :
        /\ currentModelId(mig[c]) \in ChainFrom(1)
        /\ ( /\ connected[c]
             /\ Quiescent(c)
             /\ ErrCall \notin mig[c].errors
             /\ mig[c].events["migrationNotSupported"] = 0 )
           => migrationState(mig[c], tools) # "migrated"

\* an attempt is in flight and it is of the kind the tool's phase asks for
InFlightMatching(c) ==
    \/ mig[c].migrationP /\ migrationState(mig[c], tools) = "migrating"
    \/ mig[c].migratedLoadP /\ migrationState(mig[c], tools) = "migrated"

\* the Migrator of c after one, and after two, invocations of the dispatcher
DispatchedOnce(c) == Deliver(mig[c], 1, tools, connected[c])

DispatchedTwice(c) == Deliver(mig[c], 2, tools, connected[c])

\* C5 (as claimed): while an attempt of the matching kind is in flight, invoking
\* the dispatcher twice makes the same external calls, subscriptions and
\* notifications as invoking it once, connected or not.
C5_IdempotentReentry ==
    \A c \in Clients : InFlightMatching(c) => DispatchedTwice(c) = DispatchedOnce(c)

\* C5 (amended): while an attempt of the matching kind is in flight, an invocation
\* of the dispatcher changes nothing when the client is connected or the attempt
\* is a load; with a migration attempt in flight and the client disconnected,
\* each invocation registers one more one-time "connected" listener and does
\* nothing else.
C5_IdempotentWhenConnected ==
    \A c \in Clients :
        InFlightMatching(c) =>
            LET s == currentMigrationTool(mig[c]) IN
            IF connected[c] \/ mig[c].migratedLoadP
            THEN /\ DispatchedOnce(c) = mig[c]
                 /\ DispatchedTwice(c) = DispatchedOnce(c)
            ELSE /\ DispatchedOnce(c) = [mig[c] EXCEPT !.onceConnected[s] = @ + 1]
                 /\ DispatchedTwice(c) = [mig[c] EXCEPT !.onceConnected[s] = @ + 2]

\* C5 witness: the dispatcher was invoked again while a connected client's
\* migration attempt was in flight, and the attempt is still the only one.
C5_Witness ==
    \E c \in Clients :
        /\ reentries > 0
        /\ connected[c]
        /\ InFlightMatching(c)
        /\ mig[c].pc \in CompletePcs
        /\ mig[c].events["migrating"] = 1
        /\ mig[c].calls["volunteerForMigration"] = 1

\* the external calls of the prepare phase, supportsVersion apart (the load
\* makes that call too)
PrepareOps == {"createDetached", "loadExistingPaused", "exportData", "transform", "importData"}

NoListener(m) == \A s \in Ids : m.onceMigrating[s] = 0 /\ m.onceConnected[s] = 0

\* a load of the current tool's newContainerId has just been started
LoadStarted(m, T) ==
    /\ m.migratedLoadP
    /\ ~m.migrationP
    /\ m.pc = "load_supportsVersion"
    /\ m.migratedId = T[currentMigrationTool(m)].newContainerId
    /\ m.migratedId # Undefined

\* C6: once _preparedDetachedModel is set for a migration, no later step of an
\* attempt of that migration calls createDetached, loadExistingPaused,
\* exportData, the transform callback or importData, nor supportsVersion (which
\* only the load executor still calls); the cached model is kept until the swap.
C6_PreparedModelReused ==
    [][\A c \in Clients :
         ( /\ mig[c].preparedDetachedModel # Undefined
           /\ currentModelId(mig'[c]) = currentModelId(mig[c]) )
         => /\ mig'[c].preparedDetachedModel = mig[c].preparedDetachedModel
            /\ \A op \in PrepareOps : mig'[c].calls[op] = mig[c].calls[op]
            /\ mig'[c].pc \notin PreparePcs
            /\ mig'[c].calls["supportsVersion"] # mig[c].calls["supportsVersion"]
                 => mig'[c].pc = "load_supportsVersion"
      ]_vars

\* C6 witness: a second attempt of the same migration got past volunteering
\* with the model prepared by the first.
C6_Witness ==
    \E c \in Clients :
        /\ mig[c].preparedDetachedModel # Undefined
        /\ mig[c].pc = "attach"
        /\ mig[c].events["migrating"] = 2
        /\ mig[c].calls["volunteerForMigration"] = 2
        /\ mig[c].calls["createDetached"] = 1
        /\ mig[c].calls["importData"] = 1

\* C7: once _preparedModelId is set for a migration, attach() is not called
\* again: at most one attach per migration and client, and finalizeMigration is
\* given the cached id.
C7_AttachOnce ==
    /\ [](\A c \in Clients :
            /\ mig[c].calls["attach"] <= 1
            /\ mig[c].pc = "finalize"
                 => /\ mig[c].finalizeArg = mig[c].preparedModelId
                    /\ mig[c].finalizeArg # Undefined)
    /\ [][\A c \in Clients :
            ( /\ mig[c].preparedModelId # Undefined
              /\ currentModelId(mig'[c]) = currentModelId(mig[c]) )
            => /\ mig'[c].preparedModelId = mig[c].preparedModelId
               /\ mig'[c].calls["attach"] = mig[c].calls["attach"]
               /\ mig'[c].pc # "attach"
         ]_vars

\* C7 witness: a later attempt called finalizeMigration with the id attached by
\* an earlier one.
C7_Witness ==
    \E c \in Clients :
        /\ mig[c].pc = "finalize"
        /\ mig[c].calls["attach"] = 1
        /\ mig[c].calls["volunteerForMigration"] = 2
        /\ mig[c].finalizeArg = mig[c].preparedModelId

\* C8 (as claimed): when volunteerForMigration throws on a disconnected client,
\* the attempt ends without error, the marker is cleared, a one-time "connected"
\* listener is registered, and the next "connected" event starts a new attempt
\* that skips preparation when the prepared model is cached.
C8_RetryAfterVolunteerThrows ==
    [][\A c \in Clients :
         LET s == currentMigrationTool(mig[c]) IN
         /\ VolunteerThrows(c)
              => /\ mig'[c].errors = mig[c].errors
                 /\ ~mig'[c].migrationP
                 /\ ~mig'[c].migratedLoadP
                 /\ mig'[c].pc = "idle"
                 /\ mig'[c].onceConnected[s] = 1
         /\ ( /\ Connect(c)
              /\ mig[c].onceConnected[s] > 0
              /\ mig[c].preparedDetachedModel # Undefined )
              => /\ mig'[c].migrationP
                 /\ mig'[c].pc = "volunteer"
                 /\ mig'[c].calls["supportsVersion"] = mig[c].calls["supportsVersion"]
                 /\ \A op \in PrepareOps : mig'[c].calls[op] = mig[c].calls[op]
      ]_vars

\* C8 (amended): when volunteerForMigration throws on a disconnected client, the
\* attempt ends without error and the marker is cleared; the dispatcher runs at
\* once and, if the tool is still migrating, registers a one-time "connected"
\* listener, else starts the load.  On the next "connected" event the dispatcher
\* runs again: with the tool still migrating a new attempt starts at the volunteer
\* step, preparing nothing again when the prepared model is cached; with the tool
\* migrated the load starts.
C8_RetryOrLoadAfterVolunteerThrows ==
    [][\A c \in Clients :
         LET s == currentMigrationTool(mig[c])
             migrating == migrationState(mig[c], tools) = "migrating" IN
         /\ VolunteerThrows(c)
              => /\ mig'[c].errors = mig[c].errors
                 /\ ~mig'[c].migrationP
                 /\ IF migrating
                    THEN /\ mig'[c].pc = "idle"
                         /\ ~mig'[c].migratedLoadP
                         /\ mig'[c].onceConnected[s] = 1
                    ELSE /\ LoadStarted(mig'[c], tools)
                         /\ NoListener(mig'[c])
         /\ ( /\ Connect(c)
              /\ mig[c].onceConnected[s] > 0
              /\ mig[c].preparedDetachedModel # Undefined )
              => /\ NoListener(mig'[c])
                 /\ mig'[c].errors = mig[c].errors
                 /\ mig'[c].calls["supportsVersion"] # mig[c].calls["supportsVersion"]
                      => mig'[c].pc = "load_supportsVersion"
                 /\ \A op \in PrepareOps : mig'[c].calls[op] = mig[c].calls[op]
                 /\ IF migrating
                    THEN /\ mig'[c].migrationP
                         /\ mig'[c].pc = "volunteer"
                         /\ mig'[c].events["migrating"] = mig[c].events["migrating"] + 1
                    ELSE LoadStarted(mig'[c], tools)
      ]_vars

\* C8 witness: after a throw of volunteerForMigration and a reconnection, the
\* second attempt is at its volunteer step without having prepared again.
C8_Witness ==
    \E c \in Clients :
        /\ connected[c]
        /\ mig[c].pc = "volunteer"
        /\ mig[c].migrationP
        /\ mig[c].calls["volunteerForMigration"] = 2
        /\ mig[c].calls["supportsVersion"] = 1
        /\ mig[c].calls["attach"] = 0
        /\ mig[c].errors = {}

\* C9: whichever awaited call of a migration attempt fails because connectivity
\* was lost, the attempt returns early recording no failure, and the dispatcher
\* is re-armed for the next "connected" event (or already acts on the new phase).
C9_AnyCallFailureRetried ==
    [][\A c \in Clients :
         ( /\ mig[c].pc \in MigrationPcs
           /\ CallFails(c) \/ VolunteerThrows(c) )
         => /\ mig'[c].errors = mig[c].errors
            /\ ~mig'[c].migrationP
            /\ \/ mig'[c].onceConnected[currentMigrationTool(mig[c])] = 1
               \/ LoadStarted(mig'[c], tools)
      ]_vars

\* C10: when another client completed the migration before this client reaches
\* the finalize step (the phase is no longer migrating after preparation, or
\* newContainerId is defined when the volunteer call returns), this attempt
\* calls neither attach nor finalizeMigration nor completeMigrationTask, raises
\* no error, and the dispatcher starts the load of that newContainerId.
C10_RaceLost ==
    [][\A c \in Clients :
         LET s == currentMigrationTool(mig[c]) IN
         ( \/ /\ ImportDataReturns(c) \/ PrepareAbandonedContinues(c)
              /\ migrationState(mig[c], tools) # "migrating"
           \/ /\ VolunteerReturns(c)
              /\ tools'[s].newContainerId # Undefined )
         => /\ mig'[c].calls["attach"] = mig[c].calls["attach"]
            /\ mig'[c].calls["finalizeMigration"] = mig[c].calls["finalizeMigration"]
            /\ mig'[c].calls["completeMigrationTask"] = mig[c].calls["completeMigrationTask"]
            /\ mig'[c].errors = mig[c].errors
            /\ LoadStarted(mig'[c], tools')
            /\ mig'[c].migratedId = tools[s].newContainerId
      ]_vars

\* C10 witness: a client that volunteered, never attached nor finalized, is
\* loading the container another client finalized.
C10_Witness ==
    \E c \in Clients :
        /\ LoadStarted(mig[c], tools)
        /\ currentModelId(mig[c]) = 1
        /\ mig[c].calls["volunteerForMigration"] >= 1
        /\ mig[c].calls["attach"] = 0
        /\ mig[c].calls["finalizeMigration"] = 0
        /\ mig[c].errors = {}

\* the awaited calls of a migration attempt that come after supportsVersion
AfterSupportOps == {"createDetached", "loadExistingPaused", "importData",
                    "volunteerForMigration", "attach", "finalizeMigration"}

\* C11: if supportsVersion(newVersion) returns false during a migration attempt,
\* one migrationNotSupported notification is emitted, the attempt calls none of
\* createDetached, loadExistingPaused, importData, volunteerForMigration, attach
\* and finalizeMigration, neither at that point nor in the rest of its body, and
\* currentModelId, currentModel and currentMigrationTool are unchanged.
C11_UnsupportedVersion ==
    [][\A c \in Clients :
         /\ ( /\ SupportsVersionReturns(c)
              /\ mig'[c].pc = "prepareAbandoned" )
              => /\ mig'[c].events["migrationNotSupported"]
                       = mig[c].events["migrationNotSupported"] + 1
                 /\ \A op \in AfterSupportOps : mig'[c].calls[op] = 0
                 /\ mig'[c].calls = mig[c].calls
                 /\ mig'[c].currentMigratable = mig[c].currentMigratable
         /\ PrepareAbandonedContinues(c)
              => /\ \A op \in AfterSupportOps : mig'[c].calls[op] = mig[c].calls[op]
                 /\ mig'[c].events["migrationNotSupported"]
                       = mig[c].events["migrationNotSupported"]
                 /\ mig'[c].currentMigratable = mig[c].currentMigratable
      ]_vars

\* C11 witness: an attempt ended after supportsVersion returned false, having
\* called nothing but supportsVersion, with the Migrator on its initial session.
C11_Witness ==
    \E c \in Clients :
        /\ mig[c].pc = "idle"
        /\ mig[c].events["migrating"] = 1
        /\ mig[c].events["migrationNotSupported"] = 1
        /\ mig[c].calls["supportsVersion"] = 1
        /\ \A op \in Ops \ {"supportsVersion"} : mig[c].calls[op] = 0
        /\ mig[c].currentMigratable = loadExisting(1)

\* C12: when the prepare phase is abandoned (version unsupported, no transform
\* available, or transform throws) while the tool is still in phase migrating,
\* the rest of the attempt raises no error and fails no assertion: the
\* migrationNotSupported notification is its only visible effect.
C12_SilentAbandonment ==
    [][\A c \in Clients :
         ( /\ PrepareAbandonedContinues(c)
           /\ migrationState(mig[c], tools) = "migrating" )
         => mig'[c].errors = mig[c].errors
      ]_vars

\* the calls whose repetition would be a retry of the migration
RetryOps == {"supportsVersion", "createDetached", "loadExistingPaused",
             "volunteerForMigration"}

\* C13 (as claimed): once a migration attempt has been abandoned (version
\* unsupported, data not transformable), the Migrator never again calls
\* supportsVersion, createDetached, loadExistingPaused or volunteerForMigration
\* for that session, whatever connect events occur.
C13_NoCallAfterAbandon ==
    [][\A c \in Clients :
         ( \/ mig[c].pc = "prepareAbandoned"
           \/ ErrNotPrepared \in mig[c].errors )
         => \A op \in RetryOps : mig'[c].calls[op] = mig[c].calls[op]
      ]_vars

\* C13 (amended): when a migration attempt is abandoned while the tool is still
\* in phase migrating, the Migrator is left with no attempt in flight and no
\* listener, and no later event (connect or disconnect included) makes it act
\* again; when the tool has already become migrated, the load starts at once and
\* calls supportsVersion.  In both cases createDetached, loadExistingPaused and
\* volunteerForMigration are never called again for that session.
C13_NoRetryAfterAbandon ==
    [][\A c \in Clients :
         /\ PrepareAbandonedContinues(c)
              => IF migrationState(mig[c], tools) = "migrating"
                 THEN /\ mig'[c].pc = "idle"
                      /\ NoListener(mig'[c])
                      /\ ~mig'[c].migrationP
                      /\ ~mig'[c].migratedLoadP
                      /\ mig'[c].calls = mig[c].calls
                      /\ ErrNotPrepared \in mig'[c].errors
                 ELSE /\ LoadStarted(mig'[c], tools)
                      /\ mig'[c].calls["supportsVersion"] = mig[c].calls["supportsVersion"] + 1
         /\ ErrNotPrepared \in mig[c].errors => mig'[c] = mig[c]
         /\ ( /\ mig[c].events["migrationNotSupported"] > 0
              /\ currentModelId(mig'[c]) = currentModelId(mig[c]) )
              => /\ \A op \in RetryOps \ {"supportsVersion"} :
                       mig'[c].calls[op] = mig[c].calls[op]
                 /\ mig'[c].calls["supportsVersion"] # mig[c].calls["supportsVersion"]
                      => mig'[c].pc = "load_supportsVersion"
      ]_vars

\* C13 witness: a Migrator whose attempt was abandoned with the tool still
\* migrating has since lost its connection, so that a connect event follows.
C13_Witness ==
    \E c \in Clients :
        /\ ErrNotPrepared \in mig[c].errors
        /\ mig[c].events["migrationNotSupported"] = 1
        /\ migrationState(mig[c], tools) = "migrating"
        /\ ~connected[c]
        /\ Quiescent(c)

\* client c is the only one that ever acted on a migration tool (the others are
\* still on the initial session and never volunteered), and no client ever lost
\* its connection
Alone(c) ==
    /\ disconnects = 0
    /\ \A d \in Clients \ {c} :
           /\ currentModelId(mig[d]) = 1
           /\ mig[d].calls["volunteerForMigration"] = 0

\* ... its loader supported the version and the successor took the exported data
HappyPath(c) ==
    /\ Alone(c)
    /\ mig[c].events["migrationNotSupported"] = 0
    /\ mig[c].calls["transform"] = 0

\* C14: for a single always-connected client whose loader supports the version
\* and whose successor model accepts the exported data, one migration calls
\* createDetached, importData (with the exported data), attach, finalizeMigration
\* and completeMigrationTask once each and in that order; finalizeMigration gets
\* the id attach returned, completeMigrationTask follows the resolution of
\* finalizeMigration, no error is raised, the run does not stop before the load,
\* and it ends with one migrated notification carrying the model and that id.
C14_HappyPath ==
    /\ [](\A c \in Clients :
            HappyPath(c) =>
              LET k == mig[c].calls
                  s == currentMigrationTool(mig[c]) IN
              /\ \A op \in {"createDetached", "importData", "attach",
                            "finalizeMigration", "completeMigrationTask"} : k[op] <= 1
              /\ k["importData"] <= k["createDetached"]
              /\ k["attach"] <= k["importData"]
              /\ k["finalizeMigration"] <= k["attach"]
              /\ k["completeMigrationTask"] <= k["finalizeMigration"]
              /\ mig[c].pc = "importData" => mig[c].transformedData = "exported"
              /\ k["attach"] = 1 => mig[c].importedData = "exported"
              /\ mig[c].pc = "finalize"
                   => /\ mig[c].finalizeArg = mig[c].preparedModelId
                      /\ mig[c].finalizeArg # Undefined
                      /\ tools[s].newContainerId = Undefined
              /\ k["completeMigrationTask"] = 1
                   => /\ tools[s].newContainerId = mig[c].preparedModelId
                      /\ tools[s].migrationState = "migrated"
                      /\ tools[s].taskDone
              /\ mig[c].pc \in LoadPcs
                   => /\ k["createDetached"] = 1
                      /\ k["completeMigrationTask"] = 1
                      /\ mig[c].migratedId = mig[c].preparedModelId
              /\ tools[s].acceptedMigration => mig[c].pc # "idle"
              /\ mig[c].errors = {})
    /\ [][\A c \in Clients :
            (HappyPath(c) /\ LoadExistingReturns(c))
            => /\ mig'[c].events["migrated"] = 1
               /\ mig'[c].migrated.id = mig[c].preparedModelId
               /\ mig'[c].migrated.model = loadExisting(mig[c].preparedModelId).model
               /\ currentModelId(mig'[c]) = mig[c].preparedModelId
         ]_vars

\* C14 witness: the single client has made all five calls and is loading the
\* container it attached and finalized.
C14_Witness ==
    \E c \in Clients :
        /\ HappyPath(c)
        /\ mig[c].pc = "loadExisting"
        /\ mig[c].calls["completeMigrationTask"] = 1
        /\ mig[c].migratedId = mig[c].preparedModelId

\* C15: importData is given the exported data unchanged when the successor's
\* supportsDataFormat(exported) is true, the callback being then not invoked, and
\* the callback's result when the format is not supported and a callback was
\* supplied and succeeded; in both cases the attempt is not abandoned: the
\* prepared model is cached and doTheMigration goes on to its finalize phase
\* (the phase re-check, then volunteerForMigration).
C15_ImportedData ==
    /\ [](\A c \in Clients :
            /\ mig[c].pc = "transform" => mig[c].dataTransformationCallback
            /\ mig[c].pc = "importData"
                 => \/ mig[c].transformedData = "exported"
                    \/ /\ mig[c].transformedData = "transformed"
                       /\ mig[c].dataTransformationCallback
                       /\ mig[c].calls["transform"] = 1)
    /\ [][\A c \in Clients :
            /\ (ExportDataReturns(c) /\ mig'[c].pc = "importData")
                 => /\ mig'[c].transformedData = "exported"
                    /\ mig'[c].calls["transform"] = mig[c].calls["transform"]
                    /\ mig'[c].calls["importData"] = mig[c].calls["importData"] + 1
            /\ TransformReturns(c)
                 => /\ mig'[c].pc = "importData"
                    /\ mig'[c].transformedData = "transformed"
                    /\ mig'[c].calls["importData"] = mig[c].calls["importData"] + 1
            /\ ImportDataReturns(c)
                 => /\ mig'[c].importedData = mig[c].transformedData
                    /\ mig'[c].preparedDetachedModel # Undefined
                    /\ mig'[c].events["migrationNotSupported"]
                          = mig[c].events["migrationNotSupported"]
                    /\ mig'[c].errors = mig[c].errors
                    /\ IF migrationState(mig[c], tools) = "migrating"
                       THEN /\ mig'[c].pc = "volunteer"
                            /\ mig'[c].migrationP
                       ELSE LoadStarted(mig'[c], tools)
         ]_vars

\* C15 witness: one client imported the callback's result, another the exported
\* data as they were, and both went on to volunteer.
C15_Witness ==
    \E c, d \in Clients :
        /\ mig[c].importedData = "transformed"
        /\ mig[c].calls["transform"] = 1
        /\ mig[c].pc = "volunteer"
        /\ mig[d].importedData = "exported"
        /\ mig[d].calls["transform"] = 0
        /\ mig[d].pc = "volunteer"

\* C16: if the successor model rejects the exported data format and either no
\* transform callback was supplied or the callback throws, one
\* migrationNotSupported notification is emitted, importData is not called (then
\* or in the rest of the attempt), _preparedDetachedModel stays undefined and the
\* in-flight marker is cleared.
C16_DataNotTransformable ==
    [][\A c \in Clients :
         /\ ( \/ ExportDataReturns(c) /\ mig'[c].pc = "prepareAbandoned"
              \/ TransformThrows(c) )
              => /\ mig'[c].events["migrationNotSupported"]
                       = mig[c].events["migrationNotSupported"] + 1
                 /\ mig'[c].calls["importData"] = 0
                 /\ mig'[c].preparedDetachedModel = Undefined
                 /\ mig[c].migrationP
                 /\ ~mig'[c].migrationP
                 /\ mig'[c].pc = "prepareAbandoned"
         /\ ( /\ ExportDataReturns(c)
              /\ mig'[c].pc = "prepareAbandoned" ) => ~mig[c].dataTransformationCallback
         /\ ( /\ ExportDataReturns(c)
              /\ ~mig[c].dataTransformationCallback ) => mig'[c].pc \in {"importData", "prepareAbandoned"}
         /\ PrepareAbandonedContinues(c)
              => /\ mig'[c].calls["importData"] = mig[c].calls["importData"]
                 /\ mig'[c].preparedDetachedModel = Undefined
                 /\ ~mig'[c].migrationP
      ]_vars

\* C16 witness: one client gave up because its callback threw, another because
\* it had no callback; neither imported anything nor cached a prepared model.
C16_Witness ==
    \E c, d \in Clients :
        /\ mig[c].calls["transform"] = 1
        /\ ~mig[d].dataTransformationCallback
        /\ \A x \in {c, d} :
               /\ mig[x].pc = "idle"
               /\ mig[x].calls["exportData"] = 1
               /\ mig[x].events["migrationNotSupported"] = 1
               /\ mig[x].calls["importData"] = 0
               /\ mig[x].preparedDetachedModel = Undefined
               /\ ~mig[x].migrationP

C19_OnlySwapChangesTriple ==
    [][\A c \in Clients :
         LET old == mig[c].currentMigratable
             new == mig'[c].currentMigratable
         IN /\ new # old
                 => /\ LoadExistingReturns(c)
                    /\ new.model # old.model
                    /\ new.migrationTool # old.migrationTool
                    /\ new.id # old.id
            /\ LoadExistingReturns(c)
                 => /\ new # old
                    /\ new.id = tools[old.migrationTool].newContainerId
                    /\ mig'[c].events["migrated"] = 1
      ]_vars

\* C19 witness: a Migrator has replaced its triple twice, once per migration.
C19_Witness ==
    \E c \in Clients :
        /\ tools[1].newContainerId # Undefined
        /\ currentModelId(mig[c]) = tools[tools[1].newContainerId].newContainerId
        /\ mig[c].events["migrated"] = 1

\* C20: when a load succeeds, currentModelId becomes the newContainerId the
\* predecessor's tool reported when the load started, currentModel and
\* currentMigrationTool are what loadExisting returned for that id, and the
\* "migrated" notification carries that model and id and is emitted after the
\* swap: its listeners read the new triple through the accessors.
C20_LoadResult ==
    /\ [](\A c \in Clients :
            mig[c].migratedLoadP
            => /\ mig[c].migratedId # Undefined
               /\ mig[c].migratedId = tools[currentMigrationTool(mig[c])].newContainerId)
    /\ [][\A c \in Clients :
            LoadExistingReturns(c)
            => LET id == mig[c].migratedId
                   loaded == loadExisting(id)
               IN /\ currentModelId(mig'[c]) = id
                  /\ currentModel(mig'[c]) = loaded.model
                  /\ currentMigrationTool(mig'[c]) = loaded.migrationTool
                  /\ mig'[c].events["migrated"] = 1
                  /\ mig'[c].migrated.model = loaded.model
                  /\ mig'[c].migrated.id = id
                  /\ mig'[c].migrated.read = mig'[c].currentMigratable
         ]_vars

\* C20 witness: a Migrator is on the successor of the initial session, and the
\* listeners of its "migrated" notification read the successor's triple.
C20_Witness ==
    \E c \in Clients :
        /\ currentModelId(mig[c]) = tools[1].newContainerId
        /\ mig[c].migrated.id = currentModelId(mig[c])
        /\ mig[c].migrated.model = currentModel(mig[c])
        /\ mig[c].migrated.read = mig[c].currentMigratable

\* no attempt of the Migrator of c is in flight, it has emitted
\* migrationNotSupported in its session, and the session's tool is migrated
StoppedOnMigrated(c) ==
    /\ mig[c].pc = "idle"
    /\ ~mig[c].migrationP
    /\ ~mig[c].migratedLoadP
    /\ mig[c].events["migrationNotSupported"] >= 1
    /\ migrationState(mig[c], tools) = "migrated"

\* C21: if supportsVersion(newVersion) returns false during a load, one
\* migrationNotSupported notification is emitted, loadExisting is not called, the
\* load marker is cleared, the triple is unchanged, no "migrated" is emitted, no
\* listener is left, and from then on the Migrator does nothing, whatever
\* connect and disconnect events follow.
C21_LoadUnsupported ==
    [][\A c \in Clients :
         /\ ( /\ LoadSupportsVersionReturns(c)
              /\ mig'[c].pc = "idle" )
              => /\ mig'[c].events["migrationNotSupported"]
                       = mig[c].events["migrationNotSupported"] + 1
                 /\ mig'[c].events["migrated"] = mig[c].events["migrated"]
                 /\ mig'[c].migrated = mig[c].migrated
                 /\ mig'[c].calls = mig[c].calls
                 /\ mig'[c].calls["loadExisting"] = 0
                 /\ mig[c].migratedLoadP
                 /\ ~mig'[c].migratedLoadP
                 /\ ~mig'[c].migrationP
                 /\ mig'[c].currentMigratable = mig[c].currentMigratable
                 /\ NoListener(mig'[c])
                 /\ mig'[c].errors = mig[c].errors
                 /\ StoppedOnMigrated(c)'
         /\ StoppedOnMigrated(c) => mig'[c] = mig[c]
      ]_vars

\* C21 witness: a client that finalized the migration itself had its load
\* aborted, has since lost its connection, and is still on the old session.
C21_Witness ==
    \E c \in Clients :
        /\ StoppedOnMigrated(c)
        /\ mig[c].calls["completeMigrationTask"] = 1
        /\ mig[c].calls["loadExisting"] = 0
        /\ mig[c].events["migrated"] = 0
        /\ currentModelId(mig[c]) = 1
        /\ ~connected[c]

\* the dispatcher of client c ran in this step: a listener of c was delivered an
\* event, or c's load swapped the session
DispatcherRan(c) ==
    \/ \E s \in Ids : /\ ToolViolates(s)
                      /\ tools'[s].migrationState = "migrating"
                      /\ mig[c].onceMigrating[s] > 0
    \/ Connect(c) /\ SumOver(mig[c].onceConnected, Ids) > 0
    \/ LoadExistingReturns(c)

\* the history of c's current session as it was before this step (empty when the
\* step entered the session)
HistoryBefore(c) ==
    IF currentModelId(mig'[c]) = currentModelId(mig[c])
    THEN mig[c]
    ELSE [mig[c] EXCEPT !.calls = NoCalls, !.events = NoEvents]

\* C22: when the dispatcher runs while the tool reports phase migrating, the
\* client is connected, no attempt is in flight and acceptedMigration is
\* undefined, it throws "Expect an accepted migration before migration starts"
\* and does nothing else: no "migrating" notification, no marker set, no loader
\* or tool call, no listener registered.
C22_NoAcceptedMigration ==
    /\ [](\A c \in Clients :
            ( /\ migrationState(mig[c], tools) = "migrating"
              /\ ~tools[currentMigrationTool(mig[c])].acceptedMigration
              /\ connected[c]
              /\ ~mig[c].migrationP
              /\ ~mig[c].migratedLoadP )
            => DispatchedOnce(c) = Throw(mig[c], ErrNoAccepted))
    /\ [][\A c \in Clients :
            ( /\ DispatcherRan(c)
              /\ migrationState(mig'[c], tools') = "migrating"
              /\ ~tools'[currentMigrationTool(mig'[c])].acceptedMigration
              /\ connected'[c] )
            => /\ ErrNoAccepted \in mig'[c].errors
               /\ mig'[c].events["migrating"] = HistoryBefore(c).events["migrating"]
               /\ mig'[c].calls = HistoryBefore(c).calls
               /\ ~mig'[c].migrationP
               /\ ~mig'[c].migratedLoadP
               /\ mig'[c].pc = "idle"
               /\ NoListener(mig'[c])
         ]_vars

\* C22 witness: a connected Migrator was told "migrating" by a tool without an
\* accepted migration; it threw, and made no call and no notification.
C22_Witness ==
    \E c \in Clients :
        /\ migrationState(mig[c], tools) = "migrating"
        /\ ~tools[currentMigrationTool(mig[c])].acceptedMigration
        /\ connected[c]
        /\ mig[c].errors = {ErrNoAccepted}
        /\ mig[c].calls = NoCalls
        /\ mig[c].events["migrating"] = 0
        /\ ~mig[c].migrationP
        /\ NoListener(mig[c])

\* the tool of c's session reports phase migrated without the data it owes
MigratedWithoutData(m, T) ==
    /\ migrationState(m, T) = "migrated"
    /\ \/ ~T[currentMigrationTool(m)].acceptedMigration
       \/ T[currentMigrationTool(m)].newContainerId = Undefined

\* the error ensureLoading throws for such a tool
LoadError(m, T) ==
    IF ~T[currentMigrationTool(m)].acceptedMigration
    THEN ErrNoAcceptedLoad ELSE ErrNoContainer

\* C23: when the dispatcher runs while the tool reports phase migrated and no
\* attempt is in flight, but acceptedMigration or newContainerId is undefined, it
\* throws and does nothing else: the load marker stays unset, supportsVersion and
\* loadExisting are not called, and the triple is the one the dispatcher found.
C23_MigratedWithoutData ==
    /\ [](\A c \in Clients :
            ( /\ MigratedWithoutData(mig[c], tools)
              /\ ~mig[c].migrationP
              /\ ~mig[c].migratedLoadP )
            => /\ DispatchedOnce(c) = Throw(mig[c], LoadError(mig[c], tools))
               /\ DispatchedOnce(c).currentMigratable = mig[c].currentMigratable)
    /\ [][\A c \in Clients :
            ( /\ DispatcherRan(c)
              /\ MigratedWithoutData(mig'[c], tools') )
            => /\ LoadError(mig'[c], tools') \in mig'[c].errors
               /\ mig'[c].calls = HistoryBefore(c).calls
               /\ ~mig'[c].migratedLoadP
               /\ ~mig'[c].migrationP
               /\ mig'[c].pc = "idle"
               /\ mig'[c].migratedId = Undefined
         ]_vars

\* C23 witness: a Migrator swapped to a successor whose tool reports migrated
\* with no newContainerId; it threw and called nothing.
C23_Witness ==
    \E c \in Clients :
        /\ currentModelId(mig[c]) # 1
        /\ MigratedWithoutData(mig[c], tools)
        /\ tools[currentMigrationTool(mig[c])].acceptedMigration
        /\ mig[c].errors = {ErrNoContainer}
        /\ mig[c].calls = NoCalls
        /\ mig[c].events["migrated"] = 1
        /\ ~mig[c].migratedLoadP

\* C24: whenever a migration attempt ends, whether both phases completed or it
\* was abandoned early (unsupported version, transform unavailable or failing,
\* disconnection), _migrationP is cleared and the dispatcher is invoked again:
\* it registers a "connected" listener or starts the load.
C24_AttemptEndRedispatches ==
    [][\A c \in Clients :
         ( /\ mig[c].pc \in MigrationPcs
           /\ mig'[c].pc \notin MigrationPcs )
         => /\ ~mig'[c].migrationP
            /\ \/ mig'[c].onceConnected[currentMigrationTool(mig[c])] > 0
               \/ LoadStarted(mig'[c], tools')
      ]_vars

\* C25: whenever the body of a migration attempt resolves while the client is
\* connected, the tool's newContainerId is defined: the assertion
\* "newContainerId should be defined" never fails.
C25_NewContainerIdDefined ==
    \A c \in Clients : ErrNoNewId \notin mig[c].errors

\* C26: _preparedModelId is defined only if _preparedDetachedModel is; it is set
\* only while the prepared model is cached; once set, neither field changes
\* until both are cleared together, which happens only in the swap step of a
\* successful load (never on abandonment, disconnection or an aborted load).
C26_CacheFields ==
    /\ [](\A c \in Clients :
            mig[c].preparedModelId # Undefined => mig[c].preparedDetachedModel # Undefined)
    /\ [][\A c \in Clients :
            LET d == mig[c].preparedDetachedModel
                i == mig[c].preparedModelId
                dNext == mig'[c].preparedDetachedModel
                iNext == mig'[c].preparedModelId
            IN /\ (d # Undefined /\ dNext # d) \/ (i # Undefined /\ iNext # i)
                    => /\ LoadExistingReturns(c)
                       /\ currentModelId(mig'[c]) # currentModelId(mig[c])
                       /\ dNext = Undefined
                       /\ iNext = Undefined
               /\ (i = Undefined /\ iNext # Undefined)
                    => /\ d # Undefined
                       /\ dNext = d
         ]_vars

\* C26 witness: a load was aborted while the Migrator was disconnected and both
\* cache fields are still set.
C26_Witness ==
    \E c \in Clients :
        /\ StoppedOnMigrated(c)
        /\ ~connected[c]
        /\ mig[c].preparedDetachedModel # Undefined
        /\ mig[c].preparedModelId # Undefined

\* C27: every successful swap leaves both cache fields undefined before the
\* dispatcher runs on the new session, so an attempt started there begins with
\* supportsVersion and prepares afresh; the model attached and the id passed to
\* finalizeMigration are always those prepared in the current session, for the
\* current session's tool: never a model or an id of a predecessor's migration.
C27_FreshCacheAfterSwap ==
    /\ [](\A c \in Clients :
            /\ mig[c].preparedDetachedModel \in {Undefined, currentModelId(mig[c])}
            /\ mig[c].pc \in CompletePcs
                 => /\ mig[c].preparedDetachedModel = currentModelId(mig[c])
                    /\ mig[c].capturedTool = currentMigrationTool(mig[c])
            /\ mig[c].pc = "finalize"
                 => /\ mig[c].finalizeArg = mig[c].preparedModelId
                    /\ mig[c].finalizeArg \notin ChainFrom(1)
                    /\ tools[mig[c].finalizeArg].exists
                    /\ tools[mig[c].finalizeArg].migrationState = "collaborating")
    /\ [][\A c \in Clients :
            /\ LoadExistingReturns(c)
                 => /\ mig'[c].preparedDetachedModel = Undefined
                    /\ mig'[c].preparedModelId = Undefined
                    /\ mig'[c].migrationP => mig'[c].pc = "supportsVersion"
            /\ ( /\ mig[c].preparedModelId = Undefined
                 /\ mig'[c].preparedModelId # Undefined )
                 => /\ AttachReturns(c)
                    /\ ~tools[mig'[c].preparedModelId].exists
                    /\ currentModelId(mig'[c]) = currentModelId(mig[c])
         ]_vars

\* C27 witness: on a successor session a Migrator has prepared again and is
\* finalizing the second migration with a model and an id of that session.
C27_Witness ==
    \E c \in Clients :
        /\ currentModelId(mig[c]) # 1
        /\ mig[c].pc = "finalize"
        /\ mig[c].calls["createDetached"] = 1
        /\ mig[c].calls["attach"] = 1
        /\ mig[c].preparedDetachedModel = currentModelId(mig[c])

\* a Migrator with nothing pending that met no error and no unsupported version
\* is not on a session whose tool is migrated
NotLeftBehind(c) ==
    ( /\ Quiescent(c)
      /\ mig[c].errors = {}
      /\ mig[c].events["migrationNotSupported"] = 0 )
    => migrationState(mig[c], tools) # "migrated"

\* C28 (as claimed): after a successful swap the dispatcher runs on the new
\* session: if the new tool is migrated a load of its newContainerId starts, if
\* it is migrating a migration attempt starts, if it is collaborating a one-time
\* "migrating" listener is registered; along a chain of migrated sessions the
\* Migrator does not stop before the last one.
C28_DispatchAfterSwap ==
    /\ [](\A c \in Clients : NotLeftBehind(c))
    /\ [][\A c \in Clients :
            LoadExistingReturns(c)
            => LET n == currentMigrationTool(mig'[c])
                   m == mig'[c]
               IN /\ tools[n].migrationState = "migrated"
                       => /\ LoadStarted(m, tools)
                          /\ m.migratedId = tools[n].newContainerId
                  /\ tools[n].migrationState = "migrating"
                       => /\ m.migrationP
                          /\ m.pc = "supportsVersion"
                          /\ m.events["migrating"] = 1
                  /\ tools[n].migrationState = "collaborating"
                       => /\ m.onceMigrating[n] = 1
                          /\ m.pc = "idle"
         ]_vars

\* C28 (amended): as claimed, except that with the new tool in phase migrating
\* the attempt starts only if the client is connected; if it is not, a one-time
\* "connected" listener is registered on the new tool and the attempt starts
\* when that event arrives (or the load, if the tool is migrated by then).
C28_DispatchAfterSwapConnected ==
    /\ [](\A c \in Clients : NotLeftBehind(c))
    /\ [][\A c \in Clients :
            LET n == currentMigrationTool(mig'[c])
                m == mig'[c]
                attempt == /\ m.migrationP
                           /\ m.pc = "supportsVersion"
                           /\ m.events["migrating"] = 1
                           /\ m.calls = [NoCalls EXCEPT !["supportsVersion"] = 1]
            IN /\ LoadExistingReturns(c)
                    => /\ tools[n].migrationState = "migrated"
                            => /\ LoadStarted(m, tools)
                               /\ m.migratedId = tools[n].newContainerId
                       /\ (tools[n].migrationState = "migrating" /\ connected[c])
                            => attempt
                       /\ (tools[n].migrationState = "migrating" /\ ~connected[c])
                            => /\ m.onceConnected[n] = 1
                               /\ m.pc = "idle"
                               /\ ~m.migrationP
                               /\ m.events["migrating"] = 0
                               /\ m.calls = NoCalls
                       /\ tools[n].migrationState = "collaborating"
                            => /\ m.onceMigrating[n] = 1
                               /\ m.pc = "idle"
                               /\ m.calls = NoCalls
               /\ ( /\ Connect(c)
                    /\ mig[c].onceConnected[n] > 0
                    /\ mig[c].calls = NoCalls
                    /\ mig[c].events["migrated"] = 1 )
                    => IF tools[n].migrationState = "migrating"
                       THEN attempt
                       ELSE LoadStarted(m, tools)
         ]_vars

\* C28 witness: a Migrator swapped to a session that was already migrated and
\* has started the load of that session's successor.
C28_Witness ==
    \E c \in Clients :
        /\ currentModelId(mig[c]) = tools[1].newContainerId
        /\ mig[c].events["migrated"] = 1
        /\ migrationState(mig[c], tools) = "migrated"
        /\ LoadStarted(mig[c], tools)
        /\ mig[c].calls = [NoCalls EXCEPT !["supportsVersion"] = 1]

\* finalizeMigration is called only by a step that found haveMigrationTask()
\* true, completeMigrationTask only after finalizeMigration resolved, and neither
\* is called when the task was lost while attaching
FinalizeNeedsTask(c) ==
    LET s == currentMigrationTool(mig[c])
        lost == AttachReturns(c) /\ ~haveMigrationTask(tools', s, c)
    IN /\ (mig'[c].pc = "finalize" /\ mig[c].pc # "finalize")
            => /\ haveMigrationTask(tools', s, c)
               /\ AttachReturns(c) \/ VolunteerReturns(c)
               /\ mig'[c].calls["finalizeMigration"] = mig[c].calls["finalizeMigration"] + 1
       /\ ( /\ currentModelId(mig'[c]) = currentModelId(mig[c])
            /\ mig'[c].calls["completeMigrationTask"] # mig[c].calls["completeMigrationTask"] )
            => FinalizeReturns(c)
       /\ lost => /\ mig'[c].calls["finalizeMigration"] = mig[c].calls["finalizeMigration"]
                  /\ mig'[c].calls["completeMigrationTask"]
                        = mig[c].calls["completeMigrationTask"]
                  /\ mig'[c].pc # "finalize"

\* C29: finalizeMigration and completeMigrationTask are invoked only when
\* haveMigrationTask() returned true after the attach step of the same attempt;
\* if the task was lost while attaching, neither is called and the attempt
\* returns without raising an error.
C29_FinalizeOnlyWithTask ==
    [][\A c \in Clients :
         /\ FinalizeNeedsTask(c)
         /\ ( /\ AttachReturns(c)
              /\ ~haveMigrationTask(tools', currentMigrationTool(mig[c]), c) )
              => mig'[c].errors = mig[c].errors
      ]_vars

\* C30: attach() is invoked only by the step in which volunteerForMigration
\* resolved true, with the tool's newContainerId undefined at that point; if
\* volunteerForMigration resolves false while newContainerId is undefined, the
\* assertion "We should be assigned the migration task" fails and attach,
\* finalizeMigration and completeMigrationTask are not called.
C30_AttachOnlyWhenAssigned ==
    [][\A c \in Clients :
         LET s == currentMigrationTool(mig[c]) IN
         /\ ( /\ currentModelId(mig'[c]) = currentModelId(mig[c])
              /\ mig'[c].calls["attach"] # mig[c].calls["attach"] )
              => /\ VolunteerReturns(c)
                 /\ haveMigrationTask(tools', s, c)
                 /\ tools'[s].newContainerId = Undefined
                 /\ mig'[c].pc = "attach"
                 /\ mig'[c].calls["attach"] = mig[c].calls["attach"] + 1
         /\ (mig'[c].pc = "attach" /\ mig[c].pc # "attach")
              => mig'[c].calls["attach"] = mig[c].calls["attach"] + 1
         /\ VolunteerRefused(c)
              => /\ ErrNotAssigned \in mig'[c].errors
                 /\ mig'[c].calls = mig[c].calls
                 /\ mig'[c].pc = "idle"
                 /\ mig'[c].preparedModelId = mig[c].preparedModelId
         /\ ErrNotAssigned \in mig[c].errors
              => /\ mig'[c].calls["attach"] = mig[c].calls["attach"]
                 /\ mig'[c].calls["finalizeMigration"] = mig[c].calls["finalizeMigration"]
                 /\ mig'[c].calls["completeMigrationTask"]
                       = mig[c].calls["completeMigrationTask"]
      ]_vars

\* C30 witness: volunteerForMigration resolved false with no newContainerId; the
\* assertion failed and nothing was attached or finalized.
C30_Witness ==
    \E c \in Clients :
        /\ ErrNotAssigned \in mig[c].errors
        /\ mig[c].pc = "idle"
        /\ mig[c].calls["volunteerForMigration"] = 1
        /\ mig[c].calls["attach"] = 0
        /\ mig[c].calls["finalizeMigration"] = 0
        /\ mig[c].calls["completeMigrationTask"] = 0
        /\ tools[currentMigrationTool(mig[c])].newContainerId = Undefined

\* in this step the dispatcher of c ran with c disconnected and the current tool
\* in phase migrating: the "migrating" event reached its listener, the body of an
\* attempt resolved, or a load swapped to a session that is migrating
DispatchedDisconnected(c) ==
    LET s == currentMigrationTool(mig'[c]) IN
    /\ ~connected[c]
    /\ ~connected'[c]
    /\ tools'[s].migrationState = "migrating"
    /\ \/ /\ tools[s].migrationState = "collaborating"
          /\ mig[c].onceMigrating[s] > 0
       \/ VolunteerThrows(c)
       \/ AttachReturns(c) /\ ~haveMigrationTask(tools', s, c)
       \/ LoadExistingReturns(c)

\* C31: when the dispatcher runs with the tool in phase migrating and the client
\* disconnected, no attempt is started (no "migrating" notification, no marker,
\* no call); a one-time "connected" listener is registered, and when that event
\* fires the dispatcher looks at the phase again: it starts a load if the tool
\* is migrated by then, a migration attempt otherwise.
C31_DisconnectedDispatch ==
    [][\A c \in Clients :
         LET s == currentMigrationTool(mig'[c])
             m == mig'[c]
             old == IF LoadExistingReturns(c)
                    THEN [calls |-> NoCalls, migrating |-> 0]
                    ELSE [calls |-> mig[c].calls, migrating |-> mig[c].events["migrating"]]
         IN /\ DispatchedDisconnected(c)
                 => /\ m.onceConnected[s] = 1
                    /\ SumOver(m.onceConnected, Ids) = 1
                    /\ SumOver(m.onceMigrating, Ids) = 0
                    /\ ~m.migrationP
                    /\ ~m.migratedLoadP
                    /\ m.pc = "idle"
                    /\ m.events["migrating"] = old.migrating
                    /\ m.calls = old.calls
                    /\ m.errors = mig[c].errors
            /\ (Connect(c) /\ mig[c].onceConnected[s] > 0)
                 => /\ SumOver(m.onceConnected, Ids) = 0
                    /\ IF tools[s].migrationState = "migrated"
                       THEN /\ LoadStarted(m, tools)
                            /\ m.events["migrating"] = mig[c].events["migrating"]
                            /\ m.calls = [mig[c].calls EXCEPT !["supportsVersion"] = @ + 1]
                       ELSE /\ tools[s].migrationState = "migrating"
                            /\ m.migrationP
                            /\ ~m.migratedLoadP
                            /\ m.events["migrating"] = mig[c].events["migrating"] + 1
                            /\ m.pc = IF m.preparedDetachedModel = Undefined
                                      THEN "supportsVersion" ELSE "volunteer"
       ]_vars

\* C31 witness: a client that was disconnected when its tool entered phase
\* migrating started no attempt, and on reconnecting found the tool migrated and
\* started the load.
C31_Witness ==
    \E c \in Clients :
        /\ connected[c]
        /\ disconnects = 1
        /\ currentModelId(mig[c]) = 1
        /\ LoadStarted(mig[c], tools)
        /\ mig[c].events["migrating"] = 0
        /\ mig[c].calls = [NoCalls EXCEPT !["supportsVersion"] = 1]

\* C32: while the current tool is in phase collaborating the Migrator makes no
\* loader call and no tool call and emits no notification: nothing of it is
\* running, exactly one one-time "migrating" listener is registered on the
\* current tool and no other listener; a step that starts in that phase changes
\* the Migrator only by delivering the "migrating" event, which runs the
\* dispatcher once and consumes the listener.
C32_CollaboratingIsPassive ==
    /\ [](\A c \in Clients :
            LET s == currentMigrationTool(mig[c]) IN
            migrationState(mig[c], tools) = "collaborating"
            => /\ mig[c].pc = "idle"
               /\ ~mig[c].migrationP
               /\ ~mig[c].migratedLoadP
               /\ mig[c].calls = NoCalls
               /\ mig[c].events["migrating"] = 0
               /\ mig[c].events["migrationNotSupported"] = 0
               /\ mig[c].onceMigrating[s] = 1
               /\ SumOver(mig[c].onceMigrating, Ids) = 1
               /\ SumOver(mig[c].onceConnected, Ids) = 0)
    /\ [][\A c \in Clients :
            LET s == currentMigrationTool(mig[c])
                m == mig'[c]
            IN migrationState(mig[c], tools) = "collaborating"
               => /\ mig'[c] # mig[c] => tools'[s].migrationState = "migrating"
                  /\ tools'[s].migrationState = "migrating"
                       => /\ SumOver(m.onceMigrating, Ids) = 0
                          /\ m.currentMigratable = mig[c].currentMigratable
                          /\ IF connected[c]
                             THEN /\ m.migrationP
                                  /\ m.events = [mig[c].events EXCEPT !["migrating"] = 1]
                                  /\ m.calls = [NoCalls EXCEPT !["supportsVersion"] = 1]
                                  /\ SumOver(m.onceConnected, Ids) = 0
                             ELSE /\ ~m.migrationP
                                  /\ m.events = mig[c].events
                                  /\ m.calls = NoCalls
                                  /\ m.onceConnected[s] = 1
         ]_vars

\* C32 witness: a Migrator that swapped to a successor session whose tool is
\* collaborating and waits there for the next "migrating" event.
C32_Witness ==
    \E c \in Clients :
        /\ currentModelId(mig[c]) # 1
        /\ migrationState(mig[c], tools) = "collaborating"
        /\ mig[c].onceMigrating[currentModelId(mig[c])] = 1
        /\ mig[c].calls = NoCalls
        /\ mig[c].events["migrated"] = 1

\* the data of the current session of m at the sequence number of its accepted
\* migration, without local changes
DataAtCut(m, T) ==
    [id |-> currentModelId(m),
     sequenceNumber |-> T[currentMigrationTool(m)].migrationSequenceNumber,
     local |-> FALSE]

\* C33: the data exported for a migration are the predecessor session's data at
\* exactly acceptedMigration.migrationSequenceNumber, obtained from
\* loadExistingPaused(currentModelId, migrationSequenceNumber): whatever was
\* sequenced later, and whatever local changes are unacknowledged, the export
\* model, the exported data and the data imported into the successor are the
\* data at that number.
C33_ExportAtMigrationSequenceNumber ==
    \A c \in Clients :
        LET m == mig[c] IN
        /\ m.pc \in {"loadExistingPaused", "exportData"}
             => /\ m.exportModel = DataAtCut(m, tools)
                /\ m.calls["loadExistingPaused"] = m.calls["createDetached"]
        /\ m.pc \in {"transform", "importData"} => m.exportedData = DataAtCut(m, tools)
        /\ m.importedData # "none" => m.importedFrom = DataAtCut(m, tools)
        /\ m.preparedDetachedModel # Undefined
             => /\ m.importedFrom = DataAtCut(m, tools)
                /\ m.importedFrom.sequenceNumber # Undefined
                /\ m.importedFrom.sequenceNumber
                      <= tools[currentMigrationTool(m)].sequenceNumber

\* C33 witness: a change was sequenced after the migration was accepted, and the
\* data a client imported into its prepared model stop before it.
C33_Witness ==
    \E c \in Clients :
        LET s == currentMigrationTool(mig[c]) IN
        /\ mig[c].preparedDetachedModel # Undefined
        /\ mig[c].importedFrom # NoData
        /\ tools[s].sequenceNumber > tools[s].migrationSequenceNumber
        /\ mig[c].importedFrom.sequenceNumber = tools[s].migrationSequenceNumber

\* C34: the Migrator never calls dispose on a model that is or was the model of
\* its session (the swap disposes nothing); the only model it disposes is the
\* paused export model of the session it is on, once, in the step in which
\* exportData resolved, so that no transform or importData call is made without
\* the dispose before it.
C34_DisposesOnlyExportModel ==
    /\ [](\A c \in Clients :
            LET m == mig[c] IN
            /\ m.disposed \subseteq {PausedModel(currentModelId(m))}
            /\ m.calls["dispose"] = Cardinality(m.disposed)
            /\ m.calls["transform"] <= m.calls["dispose"]
            /\ m.calls["importData"] <= m.calls["dispose"]
            /\ m.calls["dispose"] <= m.calls["exportData"])
    /\ [][\A c \in Clients :
            /\ ExportDataReturns(c)
                 => /\ mig'[c].calls["dispose"] = mig[c].calls["dispose"] + 1
                    /\ mig[c].calls["transform"] = 0
                    /\ mig[c].calls["importData"] = 0
            /\ ( /\ mig'[c].calls["dispose"] # mig[c].calls["dispose"]
                 /\ ~LoadExistingReturns(c) )
                 => ExportDataReturns(c)
            /\ LoadExistingReturns(c)
                 => /\ mig'[c].calls["dispose"] = 0
                    /\ mig'[c].disposed = {}
         ]_vars

\* C34 witness: a Migrator that swapped to a successor session disposed nothing
\* at the swap, and in the migration of that session has disposed the paused
\* export model and nothing else.
C34_Witness ==
    \E c \in Clients :
        /\ currentModelId(mig[c]) # 1
        /\ mig[c].events["migrated"] = 1
        /\ mig[c].pc = "importData"
        /\ mig[c].disposed = {PausedModel(currentModelId(mig[c]))}
        /\ mig[c].calls["dispose"] = 1
        /\ mig[c].calls["exportData"] = 1

\* C35: for each predecessor session a Migrator calls loadExisting at most once
\* and swaps to the successor at most once, whatever dispatcher invocations,
\* events and retries occur: on one session loadExisting is called at most once,
\* only a resolved loadExisting changes the session, and the swap leads to a
\* session the Migrator has never been on (ids only grow along a chain).
C35_LoadOncePerSession ==
    /\ [](\A c \in Clients :
            /\ mig[c].calls["loadExisting"] <= 1
            /\ mig[c].calls["loadExisting"] = 1
                 => /\ mig[c].pc \in {"loadExisting", "idle"}
                    /\ mig[c].pc = "idle" => ErrCall \in mig[c].errors)
    /\ [][\A c \in Clients :
            /\ currentModelId(mig'[c]) >= currentModelId(mig[c])
            /\ currentModelId(mig'[c]) # currentModelId(mig[c])
                 => /\ mig[c].pc = "loadExisting"
                    /\ mig[c].calls["loadExisting"] = 1
                    /\ mig'[c].calls["loadExisting"] = 0
                    /\ mig'[c].events["migrated"] = 1
         ]_vars

\* C35 witness: a load was aborted on an unsupported version and started again
\* by a further dispatcher invocation; loadExisting has been called once.
C35_Witness ==
    \E c \in Clients :
        /\ reentries > 0
        /\ mig[c].pc = "loadExisting"
        /\ mig[c].events["migrationNotSupported"] = 1
        /\ mig[c].events["migrating"] = 0
        /\ mig[c].calls["supportsVersion"] = 2
        /\ mig[c].calls["loadExisting"] = 1

\* the continuations of a Migrator that are pending: one-time listeners
\* registered and not yet called, and a running attempt or load body
Pending(m) ==
    SumOver(m.onceMigrating, Ids) + SumOver(m.onceConnected, Ids)
        + (IF m.pc = "idle" THEN 0 ELSE 1)

\* C36: a Migrator has at most one pending continuation at every moment (the
\* one-time listeners not yet called, plus the running migration body, plus the
\* running load body), so no event can trigger the dispatcher while a body is
\* running; a running body is a migration attempt or a load, never both.
C36_OnePendingContinuation ==
    \A c \in Clients :
        /\ Pending(mig[c]) <= 1
        /\ mig[c].pc # "idle" => NoListener(mig[c])
        /\ mig[c].pc \in MigrationPcs => ~mig[c].migratedLoadP
        /\ mig[c].pc \in LoadPcs => mig[c].migratedLoadP /\ ~mig[c].migrationP

\* C36 witness: an attempt ended on a disconnection and left exactly one
\* "connected" listener; nothing else of the Migrator is pending.
C36_Witness ==
    \E c \in Clients :
        /\ ~connected[c]
        /\ mig[c].pc = "idle"
        /\ mig[c].events["migrating"] = 1
        /\ mig[c].calls["volunteerForMigration"] = 1
        /\ mig[c].onceConnected[currentMigrationTool(mig[c])] = 1
        /\ Pending(mig[c]) = 1

\* C37: when the body of a migration attempt rejects (an awaited call other than
\* volunteerForMigration throws, or an assertion of the attempt or of its
\* completion handler fails) the marker is not cleared then or later, the
\* dispatcher is not invoked and no listener is registered: from then on no step
\* changes the Migrator, so it makes no further call and never swaps, whatever
\* the tool does.  Likewise after a rejected load body, whose marker stays set.
\* (The assertion on the prepared model fails after an abandonment, which had
\* cleared the marker before; there is then no marker left to clear.)
C37_RejectedBodyIsFinal ==
    /\ [](\A c \in Clients :
            mig[c].errors # {}
            => /\ mig[c].pc = "idle"
               /\ NoListener(mig[c])
               /\ ~(mig[c].migrationP /\ mig[c].migratedLoadP)
               /\ ErrNotPrepared \notin mig[c].errors
                    => mig[c].migrationP \/ mig[c].migratedLoadP
               /\ ErrNoNewId \in mig[c].errors => mig[c].migrationP)
    /\ [][\A c \in Clients :
            /\ mig[c].errors # {} => mig'[c] = mig[c]
            /\ mig'[c].errors # mig[c].errors
                 => /\ mig'[c].migrationP = mig[c].migrationP
                    /\ mig'[c].migratedLoadP = mig[c].migratedLoadP
                    /\ mig'[c].calls = mig[c].calls
                    /\ mig'[c].events = mig[c].events
                    /\ mig'[c].currentMigratable = mig[c].currentMigratable
                    /\ mig[c].pc \in LoadPcs => mig'[c].migratedLoadP
                    /\ mig[c].pc \in (PreparePcs \cup CompletePcs) => mig'[c].migrationP
         ]_vars

\* C37 witness: the body of a client's attempt rejected; another client has
\* completed the migration and this one still sits on the predecessor with its
\* marker set and nothing pending.
C37_Witness ==
    \E c \in Clients :
        /\ mig[c].errors # {}
        /\ mig[c].migrationP
        /\ mig[c].pc = "idle"
        /\ connected[c]
        /\ NoListener(mig[c])
        /\ currentModelId(mig[c]) = 1
        /\ tools[1].migrationState = "migrated"
        /\ \E d \in Clients \ {c} : currentModelId(mig[d]) = tools[1].newContainerId

\* C38: "migrating" is emitted once per started attempt, not once per migration:
\* every step that starts an attempt (the marker becomes set) emits it once,
\* also when the attempt is a retry after a disconnect and reconnect, and no
\* other step emits it; so for one migration the number of "migrating"
\* notifications is the number of attempts started.
C38_MigratingPerAttempt ==
    [][\A c \in Clients :
         LET before == IF LoadExistingReturns(c) THEN 0 ELSE mig[c].events["migrating"]
             started == ~mig[c].migrationP /\ mig'[c].migrationP
         IN /\ mig'[c].events["migrating"] = before + (IF started THEN 1 ELSE 0)
            /\ started => /\ mig'[c].pc \in {"supportsVersion", "volunteer"}
                          /\ mig[c].pc \in {"idle", "loadExisting"}
                          /\ connected'[c]
      ]_vars

\* C38 witness: one migration, two attempts by the same client (the first ended
\* on a disconnection, the second started on reconnecting), two "migrating"
\* notifications.
C38_Witness ==
    \E c \in Clients :
        /\ currentModelId(mig[c]) = 1
        /\ Cardinality({s \in Ids : tools[s].acceptedMigration}) = 1
        /\ mig[c].events["migrating"] = 2
        /\ mig[c].calls["volunteerForMigration"] = 2
        /\ mig[c].calls["supportsVersion"] = 1
        /\ mig[c].migrationP
        /\ disconnects = 1

\* C39: the in-flight marker tracks the running body: _migrationP is defined in
\* every state in which a migration-attempt body has started and not yet
\* settled (the steps after an abandonment notification included), and
\* _migratedLoadP in every state in which a load body has started and not yet
\* settled.
C39_MarkerTracksBody ==
    \A c \in Clients :
        /\ mig[c].pc \in MigrationPcs => mig[c].migrationP
        /\ mig[c].pc \in LoadPcs => mig[c].migratedLoadP

\* C40: throughout a migration attempt the tool captured when it started is the
\* current migration tool, so finalizeMigration (on the captured tool) and
\* volunteerForMigration, haveMigrationTask and completeMigrationTask (on the
\* current tool) address the same tool; no swap occurs between the start and
\* the end of an attempt: the session changes only in a step of a load.
C40_CapturedToolIsCurrent ==
    /\ [](\A c \in Clients :
            mig[c].pc \in MigrationPcs
            => /\ mig[c].capturedTool = currentMigrationTool(mig[c])
               /\ tools[mig[c].capturedTool].exists
               /\ tools[mig[c].capturedTool].acceptedMigration)
    /\ [][\A c \in Clients :
            /\ mig'[c].currentMigratable # mig[c].currentMigratable
                 => /\ mig[c].pc = "loadExisting"
                    /\ ~mig[c].migrationP
            /\ FinalizeReturns(c)
                 => /\ mig[c].capturedTool = currentMigrationTool(mig[c])
                    /\ tools'[mig[c].capturedTool].newContainerId # Undefined
                    /\ ~haveMigrationTask(tools', mig[c].capturedTool, c)
         ]_vars

\* C40 witness: on its second session a Migrator is finalizing the migration of
\* that session; the tool it captured is the tool of that session.
C40_Witness ==
    \E c \in Clients :
        /\ currentModelId(mig[c]) # 1
        /\ mig[c].pc = "finalize"
        /\ mig[c].capturedTool = currentMigrationTool(mig[c])
        /\ mig[c].capturedTool # 1
        /\ haveMigrationTask(tools, mig[c].capturedTool, c)

====
